---- MODULE Spec2Model ----
(***************************************************************************)
(* Hexhaven campaign loader (campaigns/load-campaigns.py): the conversion  *)
(* of a hex-grid scenario (axial coordinates) into the engine's cartesian  *)
(* "offset" record, and the map exporter (campaigns/export_hex_maps.py).   *)
(* Every converter is a pure function; a behaviour starts with one call:   *)
(* Init draws the function, its argument and the file system it runs on,   *)
(* the function's action computes the value the Python code returns and    *)
(* what it leaves in the file system and on the output.  After an export   *)
(* the SVG files written can be converted to PNG by a further call.        *)
(*                                                                         *)
(* Encoding of Python values:                                              *)
(*   dict            a function whose domain is the set of its keys        *)
(*                   ({} is the empty function <<>>)                       *)
(*   list            a sequence                                            *)
(*   str built by an f-string, and an id it may stand for: a sequence of   *)
(*                   characters                                            *)
(*   other str       a TLA+ string                                         *)
(*   in a slot where the campaign format has a dict, a JSON str s or a     *)
(*   JSON null instead of it: [json_str |-> s] or PyNone ("json_str",      *)
(*   "none" and "some" are not keys of any dict)                           *)
(*   None            PyNone; a value that may be None is Some(v) or PyNone *)
(* A key that the code iterates holds a list, a coordinate is an int, a    *)
(* campaign file holds a JSON object.                                      *)
(***************************************************************************)
EXTENDS Integers, Sequences, FiniteSets, TLC

VARIABLES
    op,     \* the function called
    arg,    \* its argument(s)
    ret,    \* what the call produced: Ok(value) or Raise(exception, key)
    pc,     \* "call" before the function ran, "done" after
    files,  \* the files of the file system: a set of [path, content]
    dirs,   \* the directories of the file system: a set of paths
    log     \* the lines printed by the exporter, in order

vars == <<op, arg, ret, pc, files, dirs, log>>

(***************************************************************************)
(* Bounds of the model.                                                    *)
(***************************************************************************)
\* hex_to_cartesian is called on every q, r in -MaxQ..MaxQ
MaxQ == 12
\* the longest list handed to a converter
MaxLen == 2
\* axial_to_pixel is called on every q, r in -MaxPixel..MaxPixel
MaxPixel == 3
\* the most scenarios in a campaign handed to export_campaign
MaxScenarios == 3

(***************************************************************************)
(* Python primitives.                                                      *)
(***************************************************************************)
SeqsUpTo(S, n) == UNION {[1..k -> S] : k \in 0..n}

PyNone == [none |-> TRUE]
Some(v) == [some |-> v]
IsNone(o) == "none" \in DOMAIN o

Ok(v) == [ok |-> TRUE, val |-> v]
Raise(e, k) == [ok |-> FALSE, exc |-> e, key |-> k]
Pending == [pending |-> TRUE]

\* isinstance(v, dict): neither a str nor None
IsDict(v) == "json_str" \notin DOMAIN v /\ "none" \notin DOMAIN v
\* isinstance(v, str)
IsStr(v) == "json_str" \in DOMAIN v
\* k in d
Has(d, k) == k \in DOMAIN d
\* d.get(k, default)
GetOr(d, k, default) == IF k \in DOMAIN d THEN d[k] ELSE default

\* the exception of the subscript d[k], if any, as a list of at most one:
\* a str and None cannot be subscripted by a str, a dict must have the key
Sub(d, k) ==
    IF ~IsDict(d) THEN <<Raise("TypeError", k)>>
    ELSE IF ~Has(d, k) THEN <<Raise("KeyError", k)>>
    ELSE <<>>
\* the exception of the attribute reference d.get, if any: only a dict has it
GetAttr(d) == IF IsDict(d) THEN <<>> ELSE <<Raise("AttributeError", "get")>>
\* the exception of k in v, if any: None is not a container
InError(k, v) == IF IsNone(v) THEN <<Raise("TypeError", k)>> ELSE <<>>

\* the concatenation of a list of lists
RECURSIVE Flat(_)
Flat(ss) == IF ss = <<>> THEN <<>> ELSE Head(ss) \o Flat(Tail(ss))

\* the characters of the strs of the model
Chars ==
    ("Crypt" :> <<"C", "r", "y", "p", "t">>) @@
    ("Black Barrow" :> <<"B", "l", "a", "c", "k", " ", "B", "a", "r", "r", "o", "w">>) @@
    ("Boss: Lair" :> <<"B", "o", "s", "s", ":", " ", "L", "a", "i", "r">>) @@
    ("intro" :> <<"i", "n", "t", "r", "o">>) @@
    ("maps" :> <<"m", "a", "p", "s">>) @@
    ("hexes" :> <<"h", "e", "x", "e", "s">>) @@
    ("clear all hexes" :> <<"c", "l", "e", "a", "r", " ", "a", "l", "l", " ",
                            "h", "e", "x", "e", "s">>) @@
    ("hold the line" :> <<"h", "o", "l", "d", " ", "t", "h", "e", " ",
                          "l", "i", "n", "e">>) @@
    ("3,2" :> <<"3", ",", "2">>) @@
    ("position" :> <<"p", "o", "s", "i", "t", "i", "o", "n">>) @@
    ("no position" :> <<"n", "o", " ", "p", "o", "s", "i", "t", "i", "o", "n">>) @@
    ("gold" :> <<"g", "o", "l", "d">>) @@
    ("" :> <<>>) @@
    ("//" :> <<"/", "/">>) @@
    ("old.svg" :> <<"o", "l", "d", ".", "s", "v", "g">>) @@
    ("." :> <<".">>) @@
    ("maps/" :> <<"m", "a", "p", "s", "/">>) @@
    ("./maps" :> <<".", "/", "m", "a", "p", "s">>) @@
    ("École" :> <<"É", "c", "o", "l", "e">>) @@
    ("backend" :> <<"b", "a", "c", "k", "e", "n", "d">>) @@
    ("prisma" :> <<"p", "r", "i", "s", "m", "a">>) @@
    ("seed-data" :> <<"s", "e", "e", "d", "-", "d", "a", "t", "a">>) @@
    ("scenarios-campaigns.json" :> <<"s", "c", "e", "n", "a", "r", "i", "o", "s", "-", "c", "a", "m",
            "p", "a", "i", "g", "n", "s", ".", "j", "s", "o", "n">>) @@
    ("campaign-templates.json" :> <<"c", "a", "m", "p", "a", "i", "g", "n", "-", "t", "e", "m", "p",
            "l", "a", "t", "e", "s", ".", "j", "s", "o", "n">>) @@
    (" scenario campaign" :> <<" ", "s", "c", "e", "n", "a", "r", "i", "o",
            " ", "c", "a", "m", "p", "a", "i", "g", "n">>) @@
    ("png" :> <<"p", "n", "g">>) @@
    ("maps/png" :> <<"m", "a", "p", "s", "/", "p", "n", "g">>) @@
    ("a.png" :> <<"a", ".", "p", "n", "g">>) @@
    ("missing.svg" :> <<"m", "i", "s", "s", "i", "n", "g", ".", "s", "v",
            "g">>) @@
    (".svg" :> <<".", "s", "v", "g">>) @@
    (".png" :> <<".", "p", "n", "g">>) @@
    ("/home/ubuntu/hexhaven/campaigns" :> <<"/", "h", "o", "m", "e", "/",
            "u", "b", "u", "n", "t", "u", "/", "h", "e", "x", "h", "a",
            "v", "e", "n", "/", "c", "a", "m", "p", "a", "i", "g", "n", "s">>) @@
    ("hex-maps-clean" :> <<"h", "e", "x", "-", "m", "a", "p", "s", "-",
            "c", "l", "e", "a", "n">>) @@
    ("hex-maps" :> <<"h", "e", "x", "-", "m", "a", "p", "s">>) @@
    ("hex-maps-clean-png" :> <<"h", "e", "x", "-", "m", "a", "p", "s", "-",
            "c", "l", "e", "a", "n", "-", "p", "n", "g">>) @@
    ("hex-maps-png" :> <<"h", "e", "x", "-", "m", "a", "p", "s", "-", "p",
            "n", "g">>) @@
    ("arcane-conspiracy" :> <<"a", "r", "c", "a", "n", "e", "-", "c", "o",
            "n", "s", "p", "i", "r", "a", "c", "y">>) @@
    ("void-expansion" :> <<"v", "o", "i", "d", "-", "e", "x", "p", "a",
            "n", "s", "i", "o", "n">>) @@
    ("arcane-conspiracy-scenarios.json" :> <<"a", "r", "c", "a", "n", "e",
            "-", "c", "o", "n", "s", "p", "i", "r", "a", "c", "y", "-",
            "s", "c", "e", "n", "a", "r", "i", "o", "s", ".", "j", "s",
            "o", "n">>) @@
    ("void-expansion-scenarios.json" :> <<"v", "o", "i", "d", "-", "e",
            "x", "p", "a", "n", "s", "i", "o", "n", "-", "s", "c", "e",
            "n", "a", "r", "i", "o", "s", ".", "j", "s", "o", "n">>)

\* pattern in text, for two strs
Contains(text, pattern) ==
    \E i \in 0..(Len(text) - Len(pattern)) :
        SubSeq(text, i + 1, i + Len(pattern)) = pattern

\* k in v for a str k: key membership when v is a dict, a substring test
\* when v is a str (v is not None: see InError)
PyIn(k, v) ==
    IF IsDict(v) THEN Has(v, k) ELSE Contains(Chars[v.json_str], Chars[k])

\* q & 1 on Python's unbounded two's-complement integers: the lowest bit,
\* 1 for every odd q whatever its sign (TLA+'s % is never negative).
PyAnd1(q) == q % 2

\* a // b: Python's floor division (TLA+'s \div rounds toward minus infinity)
PyFloorDiv(a, b) == a \div b

\* str(n) for a digit
DigitChar(d) == <<"0", "1", "2", "3", "4", "5", "6", "7", "8", "9">>[d + 1]

RECURSIVE NatToStr(_)
NatToStr(n) ==
    IF n < 10 THEN <<DigitChar(n)>>
    ELSE NatToStr(n \div 10) \o <<DigitChar(n % 10)>>

\* str(n), as an f-string formats an int: a minus sign, then the decimal digits
IntToStr(n) == IF n < 0 THEN <<"-">> \o NatToStr(-n) ELSE NatToStr(n)

(***************************************************************************)
(* hex_to_cartesian                                                        *)
(***************************************************************************)
\* The division truncating toward zero, as C or JavaScript's Math.trunc do it.
TruncDiv(a, b) == IF a >= 0 THEN a \div b ELSE -((-a) \div b)

\* hex_to_cartesian with the row shift computed by a truncating q / 2
hex_to_cartesian_trunc(q, r) == <<q, r + TruncDiv(q, 2)>>

\* the floor division taken of the whole sum: y = (r + q - (q & 1)) // 2
hex_to_cartesian_halved_sum(q, r) == <<q, PyFloorDiv(r + q - PyAnd1(q), 2)>>

hex_to_cartesian(q, r) ==
    LET x == q
        y == r + PyFloorDiv(q - PyAnd1(q), 2)
    IN  <<x, y>>

\* {'x': x, 'y': y}
XY(t) == [x |-> t[1], y |-> t[2]]

(***************************************************************************)
(* convert_hex_map_to_layout                                               *)
(***************************************************************************)
\* the id with the separator between q and r left out: f'hex-{q}{r}'
HexId_nosep(q, r) == <<"h", "e", "x", "-">> \o IntToStr(q) \o IntToStr(r)

\* f'hex-{q}-{r}'
HexId(q, r) == <<"h", "e", "x", "-">> \o IntToStr(q) \o <<"-">> \o IntToStr(r)

\* the terrain reduced to obstacle or normal: 'difficult' is lost
LayoutEntry_two_terrains(hex_tile) ==
    [id |-> HexId(hex_tile.q, hex_tile.r),
     x |-> hex_to_cartesian(hex_tile.q, hex_tile.r)[1],
     y |-> hex_to_cartesian(hex_tile.q, hex_tile.r)[2],
     terrain |-> IF hex_tile.terrain = "obstacle" THEN "obstacle" ELSE "normal",
     features |-> <<>>]

\* the dict appended for one hex_tile
LayoutEntry(hex_tile) ==
    LET q == hex_tile.q
        r == hex_tile.r
        c == hex_to_cartesian(q, r)
    IN  [id |-> HexId(q, r),
         x |-> c[1],
         y |-> c[2],
         terrain |-> IF hex_tile.terrain = "obstacle" THEN "obstacle"
                     ELSE hex_tile.terrain,
         features |-> <<>>]

\* the exceptions of the loop of convert_hex_map_to_layout, in the order of
\* the code: for each tile the subscripts q and r, then terrain
LayoutErrors(hexes) ==
    Flat([i \in 1..Len(hexes) |->
            Sub(hexes[i], "q") \o Sub(hexes[i], "r")
            \o Sub(hexes[i], "terrain")])

\* one entry appended per input tile, in input order (the value returned
\* when no subscript raises)
convert_hex_map_to_layout(hexes) ==
    [i \in 1..Len(hexes) |-> LayoutEntry(hexes[i])]

(***************************************************************************)
(* convert_starting_positions                                              *)
(***************************************************************************)
\* the positions converted with the player index carried along
convert_starting_positions_keep_player(positions) ==
    [i \in 1..Len(positions) |->
        [x |-> hex_to_cartesian(positions[i].q, positions[i].r)[1],
         y |-> hex_to_cartesian(positions[i].q, positions[i].r)[2],
         player |-> positions[i].player]]

\* the exceptions of pos['q'], pos['r'] in the loop of
\* convert_starting_positions
StartingPositionErrors(positions) ==
    Flat([i \in 1..Len(positions) |->
            Sub(positions[i], "q") \o Sub(positions[i], "r")])

\* the value returned when no subscript raises
convert_starting_positions(positions) ==
    [i \in 1..Len(positions) |->
        XY(hex_to_cartesian(positions[i].q, positions[i].r))]

(***************************************************************************)
(* convert_monsters                                                        *)
(***************************************************************************)
\* the group returned when there are no monster groups
DefaultGroup ==
    [type |-> "enemy-basic",
     positions |-> <<[x |-> 3, y |-> 2]>>,
     level |-> "normal"]

\* the two branches in the other order: {x,y} tested before {q,r}
AppendPosition_xy_first(positions, pos) ==
    IF IsDict(pos) /\ (Has(pos, "x") /\ Has(pos, "y"))
    THEN Append(positions, pos)
    ELSE IF IsDict(pos) /\ (Has(pos, "q") /\ Has(pos, "r"))
         THEN Append(positions, XY(hex_to_cartesian(pos.q, pos.r)))
         ELSE positions

\* the if / elif of the loop body: `positions` after the entry `pos`
AppendPosition(positions, pos) ==
    IF IsDict(pos) /\ (Has(pos, "q") /\ Has(pos, "r"))
    THEN Append(positions, XY(hex_to_cartesian(pos.q, pos.r)))
    ELSE IF IsDict(pos) /\ (Has(pos, "x") /\ Has(pos, "y"))
         THEN Append(positions, pos)
         ELSE positions

\* "Track elite status": `elite` after the entry at 0-based index i
TrackElite(elite, group, i) ==
    IF i < Len(GetOr(group, "elite", <<>>))
    THEN Append(elite, group.elite[i + 1])
    ELSE elite

\* the loop over enumerate(group.get('positions', [])) from 0-based index i on,
\* with the two lists as built so far
RECURSIVE MonsterLoop(_, _, _, _)
MonsterLoop(group, i, positions, elite) ==
    IF i >= Len(GetOr(group, "positions", <<>>))
    THEN [positions |-> positions, elite |-> elite]
    ELSE MonsterLoop(group, i + 1,
                     AppendPosition(positions, group.positions[i + 1]),
                     TrackElite(elite, group, i))

\* elite if elite else [False] * len(positions)
EliteOrFalse(elite, positions) ==
    IF Len(elite) > 0 THEN elite ELSE [k \in 1..Len(positions) |-> FALSE]

\* the dict appended for one group
ConvertGroup(group) ==
    LET built == MonsterLoop(group, 0, <<>>, <<>>)
    IN  [type |-> GetOr(group, "type", "enemy-basic"),
         positions |-> built.positions,
         elite |-> EliteOrFalse(built.elite, built.positions),
         level |-> GetOr(group, "level", "normal")]

\* the default group placed on the first starting position when there is one
convert_monsters_at_start(monster_groups, starting_positions) ==
    IF Len(monster_groups) = 0
    THEN <<[type |-> "enemy-basic",
            positions |->
                IF Len(starting_positions) > 0
                THEN <<XY(hex_to_cartesian(starting_positions[1].q,
                                           starting_positions[1].r))>>
                ELSE <<[x |-> 3, y |-> 2]>>,
            level |-> "normal"]>>
    ELSE [g \in 1..Len(monster_groups) |-> ConvertGroup(monster_groups[g])]

\* the exceptions of convert_monsters: group.get(...) on a group that is
\* not a dict; an entry of positions of any type is tested with isinstance
\* and raises nothing
MonsterGroupErrors(monster_groups) ==
    Flat([g \in 1..Len(monster_groups) |-> GetAttr(monster_groups[g])])

\* the value returned when no group raises
convert_monsters(monster_groups, starting_positions) ==
    IF Len(monster_groups) = 0
    THEN <<DefaultGroup>>
    ELSE [g \in 1..Len(monster_groups) |-> ConvertGroup(monster_groups[g])]

(***************************************************************************)
(* convert_treasures                                                       *)
(***************************************************************************)
\* f'treasure-{i}'
TreasureId(i) ==
    <<"t", "r", "e", "a", "s", "u", "r", "e", "-">> \o IntToStr(i)

\* "Handle both direct coordinates and position object"
TreasureAxial(treasure) ==
    IF Has(treasure, "position")
    THEN <<treasure.position.q, treasure.position.r>>
    ELSE <<GetOr(treasure, "q", 0), GetOr(treasure, "r", 0)>>

\* the treasure left on its axial pair: x = q, y = r
TreasureEntry_raw(treasure, i) ==
    [x |-> TreasureAxial(treasure)[1],
     y |-> TreasureAxial(treasure)[2],
     id |-> GetOr(treasure, "id", TreasureId(i))]

\* the dict appended for the treasure at 0-based index i
TreasureEntry(treasure, i) ==
    LET a == TreasureAxial(treasure)
        c == hex_to_cartesian(a[1], a[2])
    IN  [x |-> c[1], y |-> c[2], id |-> GetOr(treasure, "id", TreasureId(i))]

\* the default ids counted from 1
convert_treasures_from1(treasures) ==
    [i \in 1..Len(treasures) |-> TreasureEntry(treasures[i], i)]

\* the exceptions of the loop body of convert_treasures for one treasure:
\* 'position' in treasure, then the subscripts of the position or the
\* treasure.get of the flat form
TreasureEntryErrors(treasure) ==
    IF InError("position", treasure) # <<>> THEN InError("position", treasure)
    ELSE IF PyIn("position", treasure)
    THEN Sub(treasure, "position")
         \o (IF IsDict(treasure)
             THEN Sub(treasure.position, "q") \o Sub(treasure.position, "r")
             ELSE <<>>)
    ELSE GetAttr(treasure)
TreasureListErrors(treasures) ==
    Flat([i \in 1..Len(treasures) |-> TreasureEntryErrors(treasures[i])])

\* the value returned when no treasure raises
convert_treasures(treasures) ==
    IF Len(treasures) = 0
    THEN <<>>
    ELSE [i \in 1..Len(treasures) |-> TreasureEntry(treasures[i], i - 1)]

(***************************************************************************)
(* convert_objectives                                                      *)
(***************************************************************************)
PrimaryObjective ==
    [id |-> "primary-kill-all",
     type |-> "kill_all_monsters",
     description |-> "Defeat all enemies",
     trackProgress |-> TRUE,
     milestones |-> <<25, 50, 75, 100>>]

\* type_map
TypeMap ==
    ("collect-items" :> "collect_treasure") @@
    ("protect-allies" :> "protect") @@
    ("reach-location" :> "reach_location")

\* f'secondary-{i}'
SecondaryId(i) ==
    <<"s", "e", "c", "o", "n", "d", "a", "r", "y", "-">> \o IntToStr(i)

\* an unknown type passed through: type_map.get(obj_type, obj_type)
SecondaryEntry_passthrough(obj, i) ==
    [id |-> GetOr(obj, "id", SecondaryId(i)),
     type |-> GetOr(TypeMap, GetOr(obj, "type", "collect_treasure"),
                    GetOr(obj, "type", "collect_treasure")),
     description |-> GetOr(obj, "description", "Complete objective"),
     trackProgress |-> TRUE,
     rewards |-> [experience |-> 5]]

\* the dict appended for the objective at 0-based index i
SecondaryEntry(obj, i) ==
    LET obj_type == GetOr(obj, "type", "collect_treasure")
    IN  [id |-> GetOr(obj, "id", SecondaryId(i)),
         type |-> GetOr(TypeMap, obj_type, "collect_treasure"),
         description |-> GetOr(obj, "description", "Complete objective"),
         trackProgress |-> TRUE,
         rewards |-> [experience |-> 5]]

\* obj.get(...) in the loop of convert_objectives raises AttributeError on
\* an objective that is not a dict (a str, None)
ObjectivesError(objectives_list) ==
    Flat([i \in 1..Len(objectives_list) |-> GetAttr(objectives_list[i])])

\* objectives_list is Some(list) or PyNone; `objectives_list or []`; the
\* value returned when no objective raises
convert_objectives(objectives_list) ==
    LET objs == IF IsNone(objectives_list) THEN <<>> ELSE objectives_list.some
    IN  [primary |-> PrimaryObjective,
         secondary |-> [i \in 1..Len(objs) |-> SecondaryEntry(objs[i], i - 1)]]

(***************************************************************************)
(* convert_scenario                                                        *)
(***************************************************************************)
\* the default of backgroundOpacity, 0.7, in hundredths (opacities are
\* carried in hundredths throughout)
DefaultOpacity == 70

\* The exceptions of the dict display of convert_scenario, which is
\* evaluated top to bottom: the subscripts name and difficulty, mapHexes and
\* its conversion, startingPositions and its conversion, then monsters,
\* objectives, treasures, and .get on the background.
ScenarioErrors(scenario) ==
    IF Sub(scenario, "name") # <<>> THEN Sub(scenario, "name")
    ELSE IF Sub(scenario, "difficulty") # <<>> THEN Sub(scenario, "difficulty")
    ELSE IF Sub(scenario, "mapHexes") # <<>> THEN Sub(scenario, "mapHexes")
    ELSE IF LayoutErrors(scenario.mapHexes) # <<>>
         THEN LayoutErrors(scenario.mapHexes)
    ELSE IF Sub(scenario, "startingPositions") # <<>>
         THEN Sub(scenario, "startingPositions")
    ELSE StartingPositionErrors(scenario.startingPositions)
         \o MonsterGroupErrors(GetOr(scenario, "monsterGroups", <<>>))
         \o ObjectivesError(GetOr(scenario, "objectives", <<>>))
         \o TreasureListErrors(GetOr(scenario, "treasures", <<>>))
         \o GetAttr(GetOr(scenario, "background", <<>>))

\* the dict display of convert_scenario, every subscripted key being present
EngineRecord(scenario) ==
    LET background == GetOr(scenario, "background", <<>>)
    IN [name |-> scenario.name,
        difficulty |-> scenario.difficulty,
        mapLayout |-> convert_hex_map_to_layout(scenario.mapHexes),
        playerStartPositions |->
            convert_starting_positions(scenario.startingPositions),
        monsterGroups |->
            convert_monsters(GetOr(scenario, "monsterGroups", <<>>),
                             scenario.startingPositions),
        objectives |->
            convert_objectives(Some(GetOr(scenario, "objectives", <<>>))),
        treasures |->
            convert_treasures(GetOr(scenario, "treasures", <<>>)),
        backgroundImageUrl |-> GetOr(background, "image", PyNone),
        backgroundOpacity |-> GetOr(background, "opacity", DefaultOpacity),
        backgroundOffsetX |-> GetOr(background, "offsetX", 0),
        backgroundOffsetY |-> GetOr(background, "offsetY", 0),
        backgroundScale |-> GetOr(background, "scale", 1)]

\* a strict transformer: an objective whose type is not in the table is an
\* error
convert_scenario_strict_objectives(scenario) ==
    IF ScenarioErrors(scenario) # <<>> THEN ScenarioErrors(scenario)[1]
    ELSE IF \E i \in 1..Len(GetOr(scenario, "objectives", <<>>)) :
                \/ ~Has(scenario.objectives[i], "type")
                \/ ~Has(TypeMap, scenario.objectives[i].type)
         THEN Raise("ValueError", "type")
    ELSE Ok(EngineRecord(scenario))

\* The first exception of the dict display is the call's; without one the
\* record is returned.
convert_scenario(scenario) ==
    IF ScenarioErrors(scenario) # <<>> THEN ScenarioErrors(scenario)[1]
    ELSE Ok(EngineRecord(scenario))

\* The objects of the input that the returned record refers to, rather than
\* a copy of them: `positions.append(pos)` puts the caller's {x,y} dict
\* itself into the output list.  Each is named by the 0-based index of its
\* group, its index in the group's positions and its index in the output
\* positions.  Every other value taken from the input is a str, int, float
\* or bool for the inputs of the model.
RECURSIVE AppendedBefore(_, _)
AppendedBefore(positions, i) ==
    IF i = 0 THEN 0
    ELSE AppendedBefore(positions, i - 1)
         + Len(AppendPosition(<<>>, positions[i]))
SharedPositions(monster_groups) ==
    UNION {
        LET positions == GetOr(monster_groups[g], "positions", <<>>)
        IN  {[group |-> g - 1, from |-> i - 1,
              to |-> AppendedBefore(positions, i - 1)] :
                i \in {i \in 1..Len(positions) :
                        /\ IsDict(positions[i])
                        /\ ~(Has(positions[i], "q") /\ Has(positions[i], "r"))
                        /\ Has(positions[i], "x") /\ Has(positions[i], "y")}} :
        g \in 1..Len(monster_groups)}

(***************************************************************************)
(* The heap.  The lists that convert_scenario and its helpers reach are    *)
(* objects with an identity: the lists of the input, which the caller      *)
(* holds, and the lists that the call creates.  A reference names a list.  *)
(* The statements of the converters that write to an object are their      *)
(* .append calls (no subscript is assigned to, nothing is deleted); each   *)
(* is a store of a value at the end of the list its variable is bound to.  *)
(* The stores of a call are listed in the order they are made, up to the   *)
(* exception that ends the call, if any.                                   *)
(***************************************************************************)
\* in a reference, the place of the group index for a list that belongs to
\* no monster group
Top == -1
\* the list under the key `name` of the input scenario (g = Top) or of its
\* monster group at 0-based index g
Input(name, g) == [of |-> "input", name |-> name, g |-> g]
\* a list created by the call: by the statement `name = []`, for the group
\* at 0-based index g when the statement is in the loop over the groups
New(name, g) == [of |-> "call", name |-> name, g |-> g]

\* layout = [] in convert_hex_map_to_layout
LayoutList == New("convert_hex_map_to_layout.layout", Top)
\* converted = [] in convert_starting_positions
ConvertedPositions == New("convert_starting_positions.converted", Top)
\* converted = [] in convert_monsters
ConvertedMonsters == New("convert_monsters.converted", Top)
\* positions = [] in the loop of convert_monsters
PositionsList(g) == New("convert_monsters.positions", g)
\* elite = [] in the loop of convert_monsters
EliteList(g) == New("convert_monsters.elite", g)
\* converted = [] in convert_treasures
ConvertedTreasures == New("convert_treasures.converted", Top)
\* secondary = [] in convert_objectives
SecondaryList == New("convert_objectives.secondary", Top)

\* target.append(value)
Store(target, value) == [target |-> target, value |-> value]

\* the number of hex tiles gone through before the first that raises
TilesDone(hexes) ==
    CHOOSE n \in 0..Len(hexes) :
        /\ \A i \in 1..n : LayoutErrors(<<hexes[i]>>) = <<>>
        /\ n < Len(hexes) => LayoutErrors(<<hexes[n + 1]>>) # <<>>
\* layout.append({...}) for each tile
LayoutStores(hexes) ==
    [i \in 1..TilesDone(hexes) |-> Store(LayoutList, LayoutEntry(hexes[i]))]

\* the number of starting positions gone through before the first that raises
PositionsDone(positions) ==
    CHOOSE n \in 0..Len(positions) :
        /\ \A i \in 1..n : StartingPositionErrors(<<positions[i]>>) = <<>>
        /\ n < Len(positions)
            => StartingPositionErrors(<<positions[n + 1]>>) # <<>>
\* converted.append({'x': x, 'y': y}) for each starting position
StartingPositionStores(positions) ==
    [i \in 1..PositionsDone(positions) |->
        Store(ConvertedPositions,
              XY(hex_to_cartesian(positions[i].q, positions[i].r)))]

\* the stores of the loop body of convert_monsters for the entry at 0-based
\* index i of the group at 0-based index g: positions.append(...) when the
\* entry has one of the two shapes, then elite.append(group['elite'][i])
ItemStores(group, g, i) ==
    (IF Len(AppendPosition(<<>>, group.positions[i + 1])) > 0
     THEN <<Store(PositionsList(g),
                  AppendPosition(<<>>, group.positions[i + 1])[1])>>
     ELSE <<>>)
    \o (IF i < Len(GetOr(group, "elite", <<>>))
        THEN <<Store(EliteList(g), group.elite[i + 1])>>
        ELSE <<>>)

\* a transformer that completes the elite list of the input group in place:
\* group['elite'].append(False) for each position without a flag
GroupStores_pad_elite(group, g) ==
    Flat([i \in 1..Len(GetOr(group, "positions", <<>>)) |->
            ItemStores(group, g, i - 1)])
    \o (IF Has(group, "elite")
        THEN [i \in 1..(Len(GetOr(group, "positions", <<>>))
                        - Len(group.elite)) |->
                Store(Input("elite", g), FALSE)]
        ELSE <<>>)
    \o <<Store(ConvertedMonsters, ConvertGroup(group))>>

\* the stores for one group: those of its entries, then
\* converted.append({...})
GroupStores(group, g) ==
    Flat([i \in 1..Len(GetOr(group, "positions", <<>>)) |->
            ItemStores(group, g, i - 1)])
    \o <<Store(ConvertedMonsters, ConvertGroup(group))>>

\* the number of groups gone through before the first that raises
GroupsDone(monster_groups) ==
    CHOOSE n \in 0..Len(monster_groups) :
        /\ \A g \in 1..n : MonsterGroupErrors(<<monster_groups[g]>>) = <<>>
        /\ n < Len(monster_groups)
            => MonsterGroupErrors(<<monster_groups[n + 1]>>) # <<>>
\* the stores of convert_monsters: none when the default group is returned
MonsterStores(monster_groups) ==
    Flat([g \in 1..GroupsDone(monster_groups) |->
            GroupStores(monster_groups[g], g - 1)])

\* the number of objectives gone through before the first that raises
ObjectivesDone(objs) ==
    CHOOSE n \in 0..Len(objs) :
        /\ \A i \in 1..n : ObjectivesError(<<objs[i]>>) = <<>>
        /\ n < Len(objs) => ObjectivesError(<<objs[n + 1]>>) # <<>>
\* secondary.append({...}) for each objective of the list
ObjectiveStores(objs) ==
    [i \in 1..ObjectivesDone(objs) |->
        Store(SecondaryList, SecondaryEntry(objs[i], i - 1))]

\* the number of treasures gone through before the first that raises
TreasuresDone(treasures) ==
    CHOOSE n \in 0..Len(treasures) :
        /\ \A i \in 1..n : TreasureListErrors(<<treasures[i]>>) = <<>>
        /\ n < Len(treasures) => TreasureListErrors(<<treasures[n + 1]>>) # <<>>
\* converted.append({...}) for each treasure
TreasureStores(treasures) ==
    [i \in 1..TreasuresDone(treasures) |->
        Store(ConvertedTreasures, TreasureEntry(treasures[i], i - 1))]

\* The stores of a call of convert_scenario, in the order of the dict
\* display: those of a converter are made when the display has come to it
\* without an exception.
Stores(scenario) ==
    IF \/ Sub(scenario, "name") # <<>> \/ Sub(scenario, "difficulty") # <<>>
       \/ Sub(scenario, "mapHexes") # <<>>
    THEN <<>>
    ELSE IF \/ LayoutErrors(scenario.mapHexes) # <<>>
            \/ Sub(scenario, "startingPositions") # <<>>
    THEN LayoutStores(scenario.mapHexes)
    ELSE IF StartingPositionErrors(scenario.startingPositions) # <<>>
    THEN LayoutStores(scenario.mapHexes)
         \o StartingPositionStores(scenario.startingPositions)
    ELSE IF MonsterGroupErrors(GetOr(scenario, "monsterGroups", <<>>)) # <<>>
    THEN LayoutStores(scenario.mapHexes)
         \o StartingPositionStores(scenario.startingPositions)
         \o MonsterStores(GetOr(scenario, "monsterGroups", <<>>))
    ELSE IF ObjectivesError(GetOr(scenario, "objectives", <<>>)) # <<>>
    THEN LayoutStores(scenario.mapHexes)
         \o StartingPositionStores(scenario.startingPositions)
         \o MonsterStores(GetOr(scenario, "monsterGroups", <<>>))
         \o ObjectiveStores(GetOr(scenario, "objectives", <<>>))
    ELSE LayoutStores(scenario.mapHexes)
         \o StartingPositionStores(scenario.startingPositions)
         \o MonsterStores(GetOr(scenario, "monsterGroups", <<>>))
         \o ObjectiveStores(GetOr(scenario, "objectives", <<>>))
         \o TreasureStores(GetOr(scenario, "treasures", <<>>))

\* the keys of the scenario dict under which a list lies: those of a campaign
\* scenario, or those of an engine record when the call is on one
ListKeys(scenario) ==
    DOMAIN scenario
    \cap (IF Has(scenario, "mapLayout")
          THEN {"mapLayout", "playerStartPositions", "monsterGroups",
                "treasures"}
          ELSE {"mapHexes", "startingPositions", "monsterGroups",
                "objectives", "treasures"})
\* the references of the lists of the input: those of the scenario and the
\* positions and elite lists of its monster groups
InputRefs(scenario) ==
    {Input(k, Top) : k \in ListKeys(scenario)}
    \cup (IF "monsterGroups" \in ListKeys(scenario)
          THEN UNION {IF IsDict(scenario.monsterGroups[g])
                      THEN {Input(k, g - 1) :
                              k \in DOMAIN scenario.monsterGroups[g]
                                    \cap {"positions", "elite"}}
                      ELSE {} : g \in 1..Len(scenario.monsterGroups)}
          ELSE {})
\* the list that a reference of the input names
ListAt(scenario, ref) ==
    IF ref.g = Top THEN scenario[ref.name]
    ELSE scenario.monsterGroups[ref.g + 1][ref.name]
\* the heap when convert_scenario is called: the lists of the input
Heap(scenario) == [ref \in InputRefs(scenario) |-> ListAt(scenario, ref)]

\* the values stored to the list ref, in the order of the stores
Appended(stores, ref) ==
    LET hits == SelectSeq(stores, LAMBDA s : s.target = ref)
    IN  [i \in 1..Len(hits) |-> hits[i].value]
\* the heap after the stores: a list of the input with what was appended to
\* it, a list of the call with what was appended since it was created empty
HeapAfter(heap, stores) ==
    [ref \in DOMAIN heap \cup {stores[i].target : i \in 1..Len(stores)} |->
        (IF ref \in DOMAIN heap THEN heap[ref] ELSE <<>>)
        \o Appended(stores, ref)]

\* a monster group of the input as the caller reads it from the heap
GroupAt(group, g, heap) ==
    IF ~IsDict(group) THEN group
    ELSE [k \in DOMAIN group |->
            IF Input(k, g) \in DOMAIN heap THEN heap[Input(k, g)]
            ELSE group[k]]
\* the scenario as the caller reads it from the heap
ReadBack(scenario, heap) ==
    [k \in DOMAIN scenario |->
        IF Input(k, Top) \notin DOMAIN heap THEN scenario[k]
        ELSE IF k = "monsterGroups"
        THEN [g \in 1..Len(heap[Input(k, Top)]) |->
                GroupAt(heap[Input(k, Top)][g], g - 1, heap)]
        ELSE heap[Input(k, Top)]]

\* The scenario object as the caller sees it when convert_scenario has
\* returned or raised: its lists read from the heap after the stores of the
\* call.
InputAfterCall(scenario) ==
    ReadBack(scenario, HeapAfter(Heap(scenario), Stores(scenario)))

(***************************************************************************)
(* Hex map exporter (campaigns/export_hex_maps.py).                        *)
(*                                                                         *)
(* Pixel values are kept exact: a number a/4 + (b/4) * sqrt(3) is the      *)
(* record [rat |-> a, irr |-> b] (quarters, so that 3/2, sqrt(3)/2 and     *)
(* 0.75 * hex_size are representable).  The rounding of Python's floats is *)
(* not modelled.                                                           *)
(***************************************************************************)
\* the int or float n
Num(n) == [rat |-> 4 * n, irr |-> 0]
\* math.sqrt(3)
Sqrt3 == [rat |-> 0, irr |-> 4]
\* a + b
NumAdd(a, b) == [rat |-> a.rat + b.rat, irr |-> a.irr + b.irr]
\* a * b; exact for the products the exporter forms, which have a factor
\* that is an integer or a half
NumMul(a, b) ==
    [rat |-> (a.rat * b.rat + 3 * a.irr * b.irr) \div 4,
     irr |-> (a.rat * b.irr + a.irr * b.rat) \div 4]
\* a / 2 for the two quotients of the code, 3/2 and math.sqrt(3)/2
NumHalf(a) == [rat |-> a.rat \div 2, irr |-> a.irr \div 2]

\* the pointy-top formula: x = size * (sqrt(3) * q + sqrt(3)/2 * r),
\* y = size * 3/2 * r
axial_to_pixel_pointy(hex_size, q, r, center_x, center_y) ==
    <<NumAdd(center_x,
             NumMul(Num(hex_size),
                    NumAdd(NumMul(Sqrt3, Num(q)),
                           NumMul(NumHalf(Sqrt3), Num(r))))),
      NumAdd(center_y, NumMul(Num(hex_size), NumMul(NumHalf(Num(3)), Num(r))))>>

\* HexMapExporter.axial_to_pixel, hex_size being self.hex_size
axial_to_pixel(hex_size, q, r, center_x, center_y) ==
    LET x == NumMul(Num(hex_size), NumMul(NumHalf(Num(3)), Num(q)))
        y == NumMul(Num(hex_size),
                    NumAdd(NumMul(NumHalf(Sqrt3), Num(q)),
                           NumMul(Sqrt3, Num(r))))
    IN  <<NumAdd(center_x, x), NumAdd(center_y, y)>>

\* a - b
NumSub(a, b) == [rat |-> a.rat - b.rat, irr |-> a.irr - b.irr]
\* the float 0.75
ThreeQuarters == [rat |-> 3, irr |-> 0]

\* math.cos(math.pi / 3 * i) and math.sin(math.pi / 3 * i) for i = 0..5,
\* at index i + 1
CornerCos ==
    <<Num(1), NumHalf(Num(1)), NumHalf(Num(-1)),
      Num(-1), NumHalf(Num(-1)), NumHalf(Num(1))>>
CornerSin ==
    <<Num(0), NumHalf(Sqrt3), NumHalf(Sqrt3),
      Num(0), NumSub(Num(0), NumHalf(Sqrt3)), NumSub(Num(0), NumHalf(Sqrt3))>>

\* HexMapExporter.get_hex_corners: the six (cx, cy)
get_hex_corners(x, y, size) ==
    [i \in 1..6 |->
        <<NumAdd(x, NumMul(Num(size), CornerCos[i])),
          NumAdd(y, NumMul(Num(size), CornerSin[i]))>>]

\* min(...) and max(...) of a non-empty list, scanned from the left
RECURSIVE PyMinFrom(_, _, _)
PyMinFrom(s, i, best) ==
    IF i > Len(s) THEN best
    ELSE PyMinFrom(s, i + 1, IF s[i] < best THEN s[i] ELSE best)
PyMin(s) == PyMinFrom(s, 2, s[1])

RECURSIVE PyMaxFrom(_, _, _)
PyMaxFrom(s, i, best) ==
    IF i > Len(s) THEN best
    ELSE PyMaxFrom(s, i + 1, IF s[i] > best THEN s[i] ELSE best)
PyMax(s) == PyMaxFrom(s, 2, s[1])

\* max_r taken from the q column
get_bounds_max_r_from_q(hexes) ==
    IF Len(hexes) = 0
    THEN <<0, 0, 0, 0>>
    ELSE <<PyMin([i \in 1..Len(hexes) |-> hexes[i].q]),
           PyMax([i \in 1..Len(hexes) |-> hexes[i].q]),
           PyMin([i \in 1..Len(hexes) |-> hexes[i].r]),
           PyMax([i \in 1..Len(hexes) |-> hexes[i].q])>>

\* HexMapExporter.get_bounds
get_bounds(hexes) ==
    IF Len(hexes) = 0
    THEN <<0, 0, 0, 0>>
    ELSE LET min_q == PyMin([i \in 1..Len(hexes) |-> hexes[i].q])
             max_q == PyMax([i \in 1..Len(hexes) |-> hexes[i].q])
             min_r == PyMin([i \in 1..Len(hexes) |-> hexes[i].r])
             max_r == PyMax([i \in 1..Len(hexes) |-> hexes[i].r])
         IN  <<min_q, max_q, min_r, max_r>>

(***************************************************************************)
(* export_scenario and export_campaign.  A str that the exporter formats   *)
(* (scenario name, campaign name, output directory) is taken apart into    *)
(* its characters by Chars; a file path is a character sequence.  The file *)
(* system is the set `files` of [path, content] and the set `dirs` of the  *)
(* directories that exist; the content of an SVG file is the polygons      *)
(* drawn, their points, the canvas size and the mode, the content of a     *)
(* campaign file is the JSON value parsed from it, the content of a PNG    *)
(* file is the image it was converted from and its size.  A file that     *)
(* holds JSON holds a JSON object.  `log` is what has been printed.        *)
(***************************************************************************)
\* The characters of a str are those of ASCII and Latin-1 (U+0000 to
\* U+00FF).  Of these, str.lower() changes the 26 letters A-Z and the 30
\* letters U+00C0 to U+00DE without the sign U+00D7, each to the character
\* 32 places after it.
UpperLetters ==
    <<"A", "B", "C", "D", "E", "F", "G", "H", "I", "J", "K", "L", "M",
      "N", "O", "P", "Q", "R", "S", "T", "U", "V", "W", "X", "Y", "Z",
      "À", "Á", "Â", "Ã", "Ä", "Å", "Æ", "Ç", "È", "É", "Ê", "Ë", "Ì",
      "Í", "Î", "Ï", "Ð", "Ñ", "Ò", "Ó", "Ô", "Õ", "Ö", "Ø", "Ù", "Ú",
      "Û", "Ü", "Ý", "Þ">>
LowerLetters ==
    <<"a", "b", "c", "d", "e", "f", "g", "h", "i", "j", "k", "l", "m",
      "n", "o", "p", "q", "r", "s", "t", "u", "v", "w", "x", "y", "z",
      "à", "á", "â", "ã", "ä", "å", "æ", "ç", "è", "é", "ê", "ë", "ì",
      "í", "î", "ï", "ð", "ñ", "ò", "ó", "ô", "õ", "ö", "ø", "ù", "ú",
      "û", "ü", "ý", "þ">>
\* str.lower(), one character
LowerChar(c) ==
    IF \E i \in 1..Len(UpperLetters) : UpperLetters[i] = c
    THEN LowerLetters[CHOOSE i \in 1..Len(UpperLetters) : UpperLetters[i] = c]
    ELSE c

\* scenario['name'].lower().replace(' ', '-').replace(':', '')
NotColon(c) == c # ":"
name_slug(name) ==
    LET lowered == [i \in 1..Len(name) |-> LowerChar(name[i])]
        dashed == [i \in 1..Len(lowered) |->
                      IF lowered[i] = " " THEN "-" ELSE lowered[i]]
    IN  SelectSeq(dashed, NotColon)

\* f'{scenario_num:02d}'
ZeroPad2(n) ==
    LET digits == IntToStr(n)
    IN  IF Len(digits) < 2 THEN <<"0">> \o digits ELSE digits

\* f"{campaign_name}-scenario-{scenario_num:02d}-{name_slug}{suffix}.svg"
filename(campaign_name, scenario_num, name, clean_mode) ==
    Chars[campaign_name]
        \o <<"-", "s", "c", "e", "n", "a", "r", "i", "o", "-">>
        \o ZeroPad2(scenario_num) \o <<"-">> \o name_slug(Chars[name])
        \o (IF clean_mode THEN <<"-", "c", "l", "e", "a", "n">> ELSE <<>>)
        \o <<".", "s", "v", "g">>

\* os.path.join(output_dir, file): file alone when it is absolute; no
\* separator is added after an empty output_dir or after a "/"
PathJoin(output_dir, file) ==
    IF Len(file) > 0 /\ file[1] = "/" THEN file
    ELSE IF output_dir = <<>> THEN file
    ELSE IF output_dir[Len(output_dir)] = "/" THEN output_dir \o file
    ELSE output_dir \o <<"/">> \o file

\* the index of the last "/" of a path, 0 when it has none
LastSlash(path) ==
    IF \E i \in 1..Len(path) : path[i] = "/"
    THEN CHOOSE i \in 1..Len(path) :
            path[i] = "/" /\ \A j \in (i + 1)..Len(path) : path[j] # "/"
    ELSE 0
\* Path.name of a pathlib path
BaseName(path) == SubSeq(path, LastSlash(path) + 1, Len(path))

\* a path and all its parents, the root and the working directory excepted
Prefixes(path) ==
    {SubSeq(path, 1, i - 1) :
        i \in {j \in 2..(Len(path) + 1) :
                  IF j = Len(path) + 1 THEN TRUE ELSE path[j] = "/"}}

(***************************************************************************)
(* Path resolution.  `files` and `dirs` hold each entry under its resolved *)
(* path: absolute ("/a/b", the root being "/") or relative to the working  *)
(* directory ("a/b", the working directory itself being the empty path, a  *)
(* directory above it "..", "../.."), without "." and empty components.    *)
(* A path given to open, makedirs or glob is walked component by           *)
(* component as the kernel does it: every component but the last must be   *)
(* a directory that exists.  The root, the working directory and the       *)
(* directories above it exist.  There are no symbolic links; the name of   *)
(* the working directory in the directory above it is not known, so no     *)
(* path re-enters the working directory from above, and no directory above *)
(* it is searched by glob.                                                 *)
(***************************************************************************)
\* the parts of a path between its slashes, empty parts included
\* the index of the first slash from index i on, Len(path) + 1 without one
NextSlash(path, i) ==
    IF \E j \in i..Len(path) : path[j] = "/"
    THEN CHOOSE j \in i..Len(path) :
            path[j] = "/" /\ \A k \in i..(j - 1) : path[k] # "/"
    ELSE Len(path) + 1
RECURSIVE SplitFrom(_, _)
\* the part from index i to the slash at j, and the parts after it
SplitAt(path, i, j) ==
    IF j > Len(path) THEN <<SubSeq(path, i, Len(path))>>
    ELSE <<SubSeq(path, i, j - 1)>> \o SplitFrom(path, j + 1)
SplitFrom(path, i) ==
    CHOOSE parts \in {SplitAt(path, i, j) : j \in {NextSlash(path, i)}} : TRUE
Split(path) == SplitFrom(path, 1)

NonEmpty(part) == part # <<>>
\* the components that the kernel walks along, "." and ".." among them
KernelParts(path) == SelectSeq(Split(path), NonEmpty)
IsAbsolute(path) == Len(path) > 0 /\ path[1] = "/"
Root == <<"/">>
Dot == <<".">>
DotDot == <<".", ".">>
\* the directory a walk starts in
Start(path) == IF IsAbsolute(path) THEN Root ELSE <<>>

\* the entry `part` of the directory cur
Child(cur, part) ==
    IF cur = <<>> THEN part
    ELSE IF cur = Root THEN cur \o part
    ELSE cur \o <<"/">> \o part
\* a directory above the working directory
IsUp(d) ==
    /\ Len(d) % 3 = 2
    /\ \A i \in 1..Len(d) : d[i] = (IF i % 3 = 0 THEN "/" ELSE ".")
\* the entry ".." of the directory cur
Parent(cur) ==
    IF cur = Root THEN cur
    ELSE IF cur = <<>> \/ IsUp(cur) THEN Child(cur, DotDot)
    ELSE IF LastSlash(cur) = 0 THEN <<>>
    ELSE IF LastSlash(cur) = 1 THEN Root
    ELSE SubSeq(cur, 1, LastSlash(cur) - 1)
\* one step of a walk
Step(cur, part) ==
    IF part = Dot THEN cur
    ELSE IF part = DotDot THEN Parent(cur)
    ELSE Child(cur, part)

IsDir(ds, d) == d = <<>> \/ d = Root \/ IsUp(d) \/ d \in ds
IsFile(fs, p) == \E f \in fs : f.path = p

\* the resolved path that a path names, were every directory on it there
RECURSIVE ResolveFrom(_, _, _)
ResolveFrom(parts, i, cur) ==
    IF i > Len(parts) THEN cur
    ELSE CHOOSE end \in {ResolveFrom(parts, i + 1, next) :
                            next \in {Step(cur, parts[i])}} : TRUE
Resolve(path) == ResolveFrom(KernelParts(path), 1, Start(path))

\* The walk along the components from index i on, out of cur: the resolved
\* path, or the error of the first component looked up in what is a file
\* (ENOTDIR) or is not there (ENOENT).  `what` names the path in the error.
RECURSIVE Walk(_, _, _, _, _, _)
Walk(fs, ds, parts, i, cur, what) ==
    IF i > Len(parts) THEN Ok(cur)
    ELSE IF IsFile(fs, cur) THEN Raise("NotADirectoryError", what)
    ELSE IF ~IsDir(ds, cur) THEN Raise("FileNotFoundError", what)
    ELSE CHOOSE end \in {Walk(fs, ds, parts, i + 1, next, what) :
                            next \in {Step(cur, parts[i])}} : TRUE
\* the entry that a path names: the empty path names nothing
Lookup(fs, ds, path, what) ==
    IF path = <<>> THEN Raise("FileNotFoundError", what)
    ELSE Walk(fs, ds, KernelParts(path), 1, Start(path), what)

\* open(path, 'w'): the resolved path of the file created or replaced
OpenWrite(fs, ds, path, what) ==
    IF ~Lookup(fs, ds, path, what).ok THEN Lookup(fs, ds, path, what)
    ELSE IF path[Len(path)] = "/" \/ IsDir(ds, Lookup(fs, ds, path, what).val)
    THEN Raise("IsADirectoryError", what)
    ELSE Lookup(fs, ds, path, what)
\* open(path): the resolved path of the file read
OpenRead(fs, ds, path, what) ==
    IF ~Lookup(fs, ds, path, what).ok THEN Lookup(fs, ds, path, what)
    ELSE IF IsDir(ds, Lookup(fs, ds, path, what).val)
    THEN Raise("IsADirectoryError", what)
    ELSE IF ~IsFile(fs, Lookup(fs, ds, path, what).val)
    THEN Raise("FileNotFoundError", what)
    ELSE IF path[Len(path)] = "/" THEN Raise("NotADirectoryError", what)
    ELSE Lookup(fs, ds, path, what)
\* Path.exists()
Exists(fs, ds, path) ==
    /\ Lookup(fs, ds, path, "path").ok
    /\ \/ IsFile(fs, Lookup(fs, ds, path, "path").val)
       \/ IsDir(ds, Lookup(fs, ds, path, "path").val)
\* the directory d exists; as the first argument of os.path.join and as a
\* Path the empty d stands for the working directory
DirExists(fs, ds, d) ==
    \/ d = <<>>
    \/ /\ Lookup(fs, ds, d, "d").ok
       /\ IsDir(ds, Lookup(fs, ds, d, "d").val)

\* The directories made along the components from index i on, out of cur,
\* and the outcome.  A component that is there is kept (exist_ok); one that
\* is a file ends the call: FileExistsError when it is the last, and when
\* Path.mkdir comes to it after having made a directory (`made`), otherwise
\* NotADirectoryError.
RECURSIVE MakeFrom(_, _, _, _, _, _, _, _)
\* the step into `next`, which is made unless it is there
MakeNext(fs, ds, parts, i, next, made, pathlib, what) ==
    IF IsFile(fs, next) \/ IsDir(ds, next)
    THEN MakeFrom(fs, ds, parts, i + 1, next, made, pathlib, what)
    ELSE CHOOSE end \in {MakeFrom(fs, with, parts, i + 1, next, TRUE,
                                  pathlib, what) :
                            with \in {ds \cup {next}}} : TRUE
MakeFrom(fs, ds, parts, i, cur, made, pathlib, what) ==
    IF i > Len(parts)
    THEN [ret |-> IF IsFile(fs, cur) THEN Raise("FileExistsError", what)
                  ELSE Ok(PyNone),
          dirs |-> ds]
    ELSE IF IsFile(fs, cur)
    THEN [ret |-> Raise(IF pathlib /\ made THEN "FileExistsError"
                        ELSE "NotADirectoryError", what),
          dirs |-> ds]
    ELSE CHOOSE end \in {MakeNext(fs, ds, parts, i, next, made, pathlib,
                                  what) :
                            next \in {Step(cur, parts[i])}} : TRUE
\* os.makedirs(path, exist_ok=True): the outcome and the directories
\* afterwards
makedirs(fs, ds, path, what) ==
    IF path = <<>>
    THEN [ret |-> Raise("FileNotFoundError", what), dirs |-> ds]
    ELSE MakeFrom(fs, ds, KernelParts(path), 1, Start(path), FALSE, FALSE,
                  what)
\* path.mkdir(parents=True, exist_ok=True) of a pathlib path
mkdir(fs, ds, path, what) ==
    MakeFrom(fs, ds, KernelParts(path), 1, Start(path), FALSE, TRUE, what)

\* pathlib: str(Path(path)) keeps the anchor ("/", or "//" for exactly two
\* slashes) and the components other than "." and the empty ones; the
\* empty path is "."
IsNamed(part) == part # <<>> /\ part # Dot
Anchor(path) ==
    IF /\ Len(path) >= 2 /\ path[1] = "/" /\ path[2] = "/"
       /\ (Len(path) = 2 \/ path[3] # "/")
    THEN <<"/", "/">>
    ELSE IF IsAbsolute(path) THEN Root ELSE <<>>
RECURSIVE JoinParts(_)
JoinParts(parts) ==
    IF parts = <<>> THEN <<>>
    ELSE IF Len(parts) = 1 THEN parts[1]
    ELSE parts[1] \o <<"/">> \o JoinParts(Tail(parts))
PathOf(path) ==
    IF Anchor(path) \o JoinParts(SelectSeq(Split(path), IsNamed)) = <<>>
    THEN Dot
    ELSE Anchor(path) \o JoinParts(SelectSeq(Split(path), IsNamed))
\* pathlib's path / rel
PathDiv(path, rel) == PathOf(PathJoin(path, rel))
\* Path.parent of a pathlib path: '.' for a bare name, the anchor for a name
\* under it
DirName(path) ==
    IF LastSlash(path) = 0 THEN Dot
    ELSE IF LastSlash(path) <= Len(Anchor(path)) THEN Anchor(path)
    ELSE SubSeq(path, 1, LastSlash(path) - 1)

\* hex_dict = {(h['q'], h['r']): h for h in hexes}, as the list of its
\* values in iteration order: a key keeps the place of its first insertion
\* and takes the value of its last
RECURSIVE hex_dict_from(_, _, _)
hex_dict_from(hexes, i, acc) ==
    IF i > Len(hexes) THEN acc
    ELSE LET same == {k \in 1..Len(acc) :
                        acc[k].q = hexes[i].q /\ acc[k].r = hexes[i].r}
         IN  hex_dict_from(hexes, i + 1,
                IF same = {} THEN Append(acc, hexes[i])
                ELSE [k \in 1..Len(acc) |->
                        IF k \in same THEN hexes[i] ELSE acc[k]])
\* a keyed map in which the first occurrence of a (q, r) wins
hex_dict_first_wins(hexes) ==
    [k \in 1..Len(hex_dict_from(hexes, 1, <<>>)) |->
        LET cell == hex_dict_from(hexes, 1, <<>>)[k]
        IN  hexes[CHOOSE i \in 1..Len(hexes) :
                    /\ hexes[i].q = cell.q /\ hexes[i].r = cell.r
                    /\ \A j \in 1..(i - 1) :
                        ~(hexes[j].q = cell.q /\ hexes[j].r = cell.r)]]

hex_dict(hexes) == hex_dict_from(hexes, 1, <<>>)

\* HexMapExporter(clean_mode=...) in main: hex_size keeps its default
DefaultHexSize == 50
\* HexMapExporter.MARGIN
MARGIN == 30

\* "Calculate canvas size": width, height, center_x and center_y of
\* export_scenario for a non-empty cell list
Canvas(hexes, hex_size) ==
    LET min_q == get_bounds(hexes)[1]
        max_q == get_bounds(hexes)[2]
        min_r == get_bounds(hexes)[3]
        max_r == get_bounds(hexes)[4]
    IN  [width |->
            NumAdd(NumMul(Num((max_q - min_q + 2) * hex_size),
                          NumHalf(Num(3))),
                   Num(MARGIN * 2)),
         height |->
            NumAdd(NumMul(Num((max_r - min_r + 2) * hex_size), Sqrt3),
                   Num(MARGIN * 2)),
         center_x |->
            NumAdd(NumSub(Num(MARGIN),
                          NumMul(Num(min_q * hex_size), NumHalf(Num(3)))),
                   NumMul(Num(hex_size), ThreeQuarters)),
         center_y |->
            NumAdd(NumSub(Num(MARGIN),
                          NumMul(Num(min_r * hex_size), Sqrt3)),
                   NumHalf(NumMul(Num(hex_size), Sqrt3)))]

\* the points attribute of the polygon drawn for the cell (q, r)
PolygonPoints(q, r, canvas, hex_size) ==
    LET center == axial_to_pixel(hex_size, q, r, canvas.center_x,
                                 canvas.center_y)
    IN  get_hex_corners(center[1], center[2], hex_size)

\* The exceptions of the detailed-mode drawing (clean_mode false), in the
\* order of the code: starting positions, monsters, objectives, treasures,
\* legend.
StartErrors(start_pos) ==
    Sub(start_pos, "q") \o Sub(start_pos, "r") \o Sub(start_pos, "player")
MonsterErrors(group) ==
    Sub(group, "positions")
    \o Flat([i \in 1..Len(GetOr(group, "positions", <<>>)) |->
            Sub(group.positions[i], "q") \o Sub(group.positions[i], "r")
            \o Sub(group, "elite")
            \o (IF Has(group, "elite") /\ i > Len(group.elite)
                THEN <<Raise("IndexError", "elite")>> ELSE <<>>)])
ObjectiveErrors(obj) ==
    IF InError("hexes", obj) # <<>> THEN InError("hexes", obj)
    ELSE IF PyIn("hexes", obj)
    THEN Sub(obj, "hexes")
         \o (IF IsDict(obj)
             THEN Flat([i \in 1..Len(obj.hexes) |->
                        Sub(obj.hexes[i], "q") \o Sub(obj.hexes[i], "r")])
             ELSE <<>>)
    ELSE <<>>
TreasureErrors(treasure) ==
    Sub(treasure, "position")
    \o (IF Has(treasure, "position")
        THEN Sub(treasure.position, "q") \o Sub(treasure.position, "r")
        ELSE <<>>)
DetailErrors(scenario) ==
    LET starts == GetOr(scenario, "startingPositions", <<>>)
        groups == GetOr(scenario, "monsterGroups", <<>>)
        objs == GetOr(scenario, "objectives", <<>>)
        treasures == GetOr(scenario, "treasures", <<>>)
    IN  Flat([i \in 1..Len(starts) |-> StartErrors(starts[i])])
        \o Flat([i \in 1..Len(groups) |-> MonsterErrors(groups[i])])
        \o Flat([i \in 1..Len(objs) |-> ObjectiveErrors(objs[i])])
        \o Flat([i \in 1..Len(treasures) |-> TreasureErrors(treasures[i])])
        \o Sub(scenario, "name")

\* The exceptions of export_scenario on a non-empty cell list, in the order
\* of the code: get_bounds and hex_dict subscript q and r of every cell, the
\* polygon loop subscripts terrain, then the detailed drawing, then the
\* file name subscripts sequence and name.
RenderErrors(scenario, clean_mode) ==
    LET hexes == scenario.mapHexes
        bounds_errors ==
            Flat([i \in 1..Len(hexes) |-> Sub(hexes[i], "q")])
            \o Flat([i \in 1..Len(hexes) |-> Sub(hexes[i], "r")])
    IN  IF bounds_errors # <<>> THEN bounds_errors
        ELSE Flat([i \in 1..Len(hex_dict(hexes)) |->
                    Sub(hex_dict(hexes)[i], "terrain")])
             \o (IF clean_mode THEN <<>> ELSE DetailErrors(scenario))
             \o Sub(scenario, "sequence") \o Sub(scenario, "name")

\* What one call of export_scenario does: its return value or exception,
\* the lines it prints and the file it writes (at most one).
Outcome(r, printed, written) ==
    [ret |-> r, printed |-> printed, written |-> written]

\* the branch `if not hexes`
SkipScenario(scenario) ==
    IF Sub(scenario, "name") # <<>>
    THEN Outcome(Sub(scenario, "name")[1], <<>>, <<>>)
    ELSE Outcome(Ok(PyNone),
                 <<[kind |-> "skipping", name |-> scenario.name]>>, <<>>)

\* the content of the SVG file drawn for a scenario
SvgContent(scenario, clean_mode) ==
    [polygons |->
        [i \in 1..Len(hex_dict(scenario.mapHexes)) |->
            [q |-> hex_dict(scenario.mapHexes)[i].q,
             r |-> hex_dict(scenario.mapHexes)[i].r,
             terrain |-> hex_dict(scenario.mapHexes)[i].terrain]],
     points |->
        [i \in 1..Len(hex_dict(scenario.mapHexes)) |->
            PolygonPoints(hex_dict(scenario.mapHexes)[i].q,
                          hex_dict(scenario.mapHexes)[i].r,
                          Canvas(scenario.mapHexes, DefaultHexSize),
                          DefaultHexSize)],
     width |-> Canvas(scenario.mapHexes, DefaultHexSize).width,
     height |-> Canvas(scenario.mapHexes, DefaultHexSize).height,
     clean |-> clean_mode]

\* filepath = os.path.join(output_dir, filename)
FilePath(scenario, clean_mode, output_dir, campaign_name) ==
    PathJoin(output_dir,
             filename(campaign_name, scenario.sequence, scenario.name,
                      clean_mode))

\* the rest of export_scenario, for a non-empty cell list: the drawing, then
\* open(filepath, 'w') in the file system (fs, ds); the str returned is
\* filepath as joined, the file is written where that path leads
RenderScenario(scenario, clean_mode, output_dir, campaign_name, fs, ds) ==
    IF RenderErrors(scenario, clean_mode) # <<>>
    THEN Outcome(RenderErrors(scenario, clean_mode)[1], <<>>, <<>>)
    ELSE IF ~OpenWrite(fs, ds, FilePath(scenario, clean_mode, output_dir,
                                        campaign_name), "filepath").ok
    THEN Outcome(OpenWrite(fs, ds, FilePath(scenario, clean_mode, output_dir,
                                            campaign_name), "filepath"),
                 <<>>, <<>>)
    ELSE Outcome(Ok(Some(FilePath(scenario, clean_mode, output_dir,
                                  campaign_name))),
                 <<>>,
                 <<[path |-> OpenWrite(fs, ds,
                                FilePath(scenario, clean_mode, output_dir,
                                         campaign_name), "filepath").val,
                    content |-> SvgContent(scenario, clean_mode)]>>)

\* an exporter for which a scenario without cells is an error
export_scenario_empty_is_error(scenario, clean_mode, output_dir, campaign_name, fs, ds) ==
    IF Sub(scenario, "mapHexes") # <<>>
    THEN Outcome(Sub(scenario, "mapHexes")[1], <<>>, <<>>)
    ELSE IF Len(scenario.mapHexes) = 0
    THEN Outcome(Raise("ValueError", "mapHexes"), <<>>, <<>>)
    ELSE RenderScenario(scenario, clean_mode, output_dir, campaign_name, fs, ds)

\* HexMapExporter.export_scenario, clean_mode being self.clean_mode and
\* (fs, ds) the file system
export_scenario(scenario, clean_mode, output_dir, campaign_name, fs, ds) ==
    IF Sub(scenario, "mapHexes") # <<>>
    THEN Outcome(Sub(scenario, "mapHexes")[1], <<>>, <<>>)
    ELSE IF Len(scenario.mapHexes) = 0
    THEN SkipScenario(scenario)
    ELSE RenderScenario(scenario, clean_mode, output_dir, campaign_name, fs, ds)

\* open(filepath, 'w') and write: the file is created or replaced
WriteFiles(fs, written) ==
    IF written = <<>> THEN fs
    ELSE {f \in fs : f.path # written[1].path} \cup {written[1]}

\* what the loop of export_campaign does with one scenario: st after it
ExportStep(scenario, o, st) ==
    [ret |-> IF o.ret.ok THEN Ok(PyNone) ELSE o.ret,
     files |-> WriteFiles(st.files, o.written),
     dirs |-> st.dirs,
     log |-> IF o.ret.ok /\ ~IsNone(o.ret.val)
             THEN Append(st.log \o o.printed,
                         [kind |-> "exported", name |-> scenario.name])
             ELSE st.log \o o.printed]

\* The loop of export_campaign from the scenario at index i on; st is the
\* file system and the output so far.  An exception of export_scenario
\* leaves the loop and export_campaign.
RECURSIVE ExportLoop(_, _, _, _, _, _)
ExportLoop(scenarios, i, st, clean_mode, output_dir, campaign_name) ==
    IF i > Len(scenarios)
    THEN [ret |-> Ok(PyNone), files |-> st.files, dirs |-> st.dirs,
          log |-> Append(st.log, [kind |-> "complete", name |-> campaign_name])]
    ELSE CHOOSE end \in
            {IF ~after.ret.ok THEN after
             ELSE ExportLoop(scenarios, i + 1, after, clean_mode, output_dir,
                             campaign_name) :
                after \in {ExportStep(scenarios[i], o, st) :
                    o \in {export_scenario(scenarios[i], clean_mode,
                                           output_dir, campaign_name,
                                           st.files, st.dirs)}}} : TRUE

\* HexMapExporter.export_campaign on the parsed content `data` of json_file,
\* in the file system (fs, ds) and after the output `printed`
export_campaign(data, clean_mode, output_dir, fs, ds, printed) ==
    IF Sub(data, "campaign") # <<>>
    THEN [ret |-> Sub(data, "campaign")[1], files |-> fs, dirs |-> ds,
          log |-> printed]
    ELSE IF ~makedirs(fs, ds, output_dir, "output_dir").ret.ok
    THEN [ret |-> makedirs(fs, ds, output_dir, "output_dir").ret,
          files |-> fs,
          dirs |-> makedirs(fs, ds, output_dir, "output_dir").dirs,
          log |-> printed]
    ELSE IF Sub(data, "scenarios") # <<>>
    THEN [ret |-> Sub(data, "scenarios")[1], files |-> fs,
          dirs |-> makedirs(fs, ds, output_dir, "output_dir").dirs,
          log |-> Append(printed, [kind |-> "exporting",
                                   name |-> data.campaign])]
    ELSE ExportLoop(data.scenarios, 1,
            [files |-> fs,
             dirs |-> makedirs(fs, ds, output_dir, "output_dir").dirs,
             log |-> Append(printed, [kind |-> "exporting",
                                      name |-> data.campaign])],
            clean_mode, output_dir, data.campaign)

\* the content of the file at a resolved path
ContentAt(fs, p) == (CHOOSE f \in fs : f.path = p).content

\* open(json_file) and json.load: the JSON value, or the exception of open,
\* or that of json.load on a file that does not hold JSON
LoadJson(fs, ds, json_file, what) ==
    IF ~OpenRead(fs, ds, json_file, what).ok
    THEN OpenRead(fs, ds, json_file, what)
    ELSE IF "json" \notin DOMAIN ContentAt(fs, OpenRead(fs, ds, json_file,
                                                         what).val)
    THEN Raise("JSONDecodeError", what)
    ELSE Ok(ContentAt(fs, OpenRead(fs, ds, json_file, what).val).json)

\* export_campaign from its first line: open(json_file) and json.load; st is
\* the file system and the output before the call
export_campaign_file(json_file, clean_mode, output_dir, st) ==
    IF ~LoadJson(st.files, st.dirs, json_file, "json_file").ok
    THEN [ret |-> LoadJson(st.files, st.dirs, json_file, "json_file"),
          files |-> st.files, dirs |-> st.dirs, log |-> st.log]
    ELSE export_campaign(LoadJson(st.files, st.dirs, json_file,
                                  "json_file").val,
                         clean_mode, output_dir, st.files, st.dirs, st.log)

(***************************************************************************)
(* The conversion to PNG.  ffmpeg is outside the program: a run of it      *)
(* comes to one of three ends, and which one is not the program's choice.  *)
(*   "converted"  return code 0, the PNG file is written (-y: replaced)    *)
(*   "failed"     another return code, nothing written                     *)
(*   "error"      subprocess.run raises (no ffmpeg, timeout)               *)
(* The order in which glob yields the files is the file system's.          *)
(***************************************************************************)
FfmpegOutcomes == {"converted", "failed", "error"}

\* the size=1024 of convert_svg_to_png and convert_directory_to_png
DefaultSize == 1024

\* the ends a run of ffmpeg on svg_file can come to: it converts only a file
\* that it can read, into a file that it can write
FfmpegCan(fs, ds, svg_file, png_file) ==
    IF /\ OpenRead(fs, ds, svg_file, "svg_file").ok
       /\ OpenWrite(fs, ds, png_file, "png_file").ok
    THEN FfmpegOutcomes
    ELSE FfmpegOutcomes \ {"converted"}

\* the PNG file that ffmpeg writes for svg_file
Png(fs, svg_file, png_file, size) ==
    [path |-> Resolve(png_file),
     content |-> [png_of |-> ContentAt(fs, Resolve(svg_file)),
                  size |-> size]]

\* HexMapExporter.convert_svg_to_png, for the end `outcome` of ffmpeg
convert_svg_to_png(svg_file, png_file, size, fs, outcome) ==
    IF outcome = "converted"
    THEN [ret |-> Ok(TRUE),
          files |-> WriteFiles(fs, <<Png(fs, svg_file, png_file, size)>>)]
    ELSE [ret |-> Ok(FALSE), files |-> fs]

\* the resolved path lies under the resolved directory dir, at any depth
Under(path, dir) ==
    IF dir = <<>>
    THEN Len(path) > 0 /\ ~IsAbsolute(path) /\ Split(path)[1] # DotDot
    ELSE IF dir = Root THEN Len(path) > 1 /\ IsAbsolute(path)
    ELSE /\ Len(path) > Len(dir) + 1
         /\ SubSeq(path, 1, Len(dir) + 1) = dir \o <<"/">>
EndsWith(path, suffix) ==
    /\ Len(path) >= Len(suffix)
    /\ SubSeq(path, Len(path) - Len(suffix) + 1, Len(path)) = suffix
\* path.relative_to(dir): the rest of a path that lies under dir; an anchor
\* ("/", "//") ends in its separator
RelativeTo(path, dir) ==
    IF dir = <<>> \/ dir = Dot THEN path
    ELSE IF dir = Anchor(dir) THEN SubSeq(path, Len(dir) + 1, Len(path))
    ELSE SubSeq(path, Len(dir) + 2, Len(path))
\* the entries of the file system, files and directories
Entries(fs, ds) == {f.path : f \in fs} \cup ds
\* Path(svg_dir).glob('**/*.svg'), as a set: the entries under the directory
\* that svg_dir leads to whose name ends in .svg, each as the Path that glob
\* yields, Path(svg_dir) / the rest; nothing when svg_dir is no directory
Glob(fs, ds, svg_dir) ==
    IF ~Lookup(fs, ds, PathOf(svg_dir), "svg_dir").ok THEN {}
    ELSE IF ~IsDir(ds, Lookup(fs, ds, PathOf(svg_dir), "svg_dir").val) THEN {}
    ELSE {PathDiv(PathOf(svg_dir),
                  RelativeTo(e, Lookup(fs, ds, PathOf(svg_dir),
                                       "svg_dir").val)) :
            e \in {e \in Entries(fs, ds) :
                    /\ Under(e, Lookup(fs, ds, PathOf(svg_dir), "svg_dir").val)
                    /\ EndsWith(e, Chars[".svg"])}}
\* what glob finds in convert_directory_to_png: png_dir has been made before
GlobAfterMkdir(fs, ds, svg_dir, png_dir) ==
    Glob(fs, mkdir(fs, ds, PathOf(png_dir), "png_dir").dirs, svg_dir)
\* Path.with_suffix: the name's last suffix replaced; a dot that begins or
\* ends the name begins no suffix
WithSuffix(path, suffix) ==
    LET dots == {i \in (LastSlash(path) + 2)..(Len(path) - 1) :
                    path[i] = "."}
    IN  IF dots = {} THEN path \o suffix
        ELSE SubSeq(path, 1, (CHOOSE i \in dots : \A j \in dots : j <= i) - 1)
             \o suffix
\* the orders in which the paths of S can be listed
Orders(S) ==
    {o \in [1..Cardinality(S) -> S] :
        \A i, j \in 1..Cardinality(S) : o[i] = o[j] => i = j}

\* png_file = png_dir / rel_path.with_suffix('.png')
PngFile(svg_file, svg_dir, png_dir) ==
    PathDiv(PathOf(png_dir),
            WithSuffix(RelativeTo(svg_file, PathOf(svg_dir)), Chars[".png"]))

\* The body of the loop of convert_directory_to_png for svg_file, png_file
\* being its PNG path and m the outcome of png_file.parent.mkdir: st after it.
\* ffmpeg, run on what it cannot convert, ends with a return code.
ConvertStep(svg_file, png_file, m, st, size, ffmpeg) ==
    IF ~m.ret.ok THEN [st EXCEPT !.ret = m.ret, !.dirs = m.dirs]
    ELSE IF /\ ffmpeg[svg_file] = "converted"
            /\ "converted" \in FfmpegCan(st.files, m.dirs, svg_file, png_file)
    THEN [st EXCEPT
            !.dirs = m.dirs,
            !.files = WriteFiles(@, <<Png(st.files, svg_file, png_file,
                                          size)>>),
            !.successful = @ + 1,
            !.log = Append(@, [kind |-> "converted",
                               file |-> BaseName(svg_file)])]
    ELSE IF ffmpeg[svg_file] = "error"
    THEN [st EXCEPT
            !.dirs = m.dirs,
            !.log = Append(@, [kind |-> "not_converted",
                               file |-> BaseName(svg_file)])]
    ELSE [st EXCEPT !.dirs = m.dirs]

\* The loop of convert_directory_to_png from the file at index i on; st is
\* the file system, the output and the count so far, ffmpeg the end of the
\* run of ffmpeg for each file.  An exception of mkdir leaves the loop.
RECURSIVE ConvertLoop(_, _, _, _, _, _, _)
ConvertLoop(svg_files, i, st, svg_dir, png_dir, size, ffmpeg) ==
    IF i > Len(svg_files) THEN st
    ELSE CHOOSE end \in
            {IF ~after.ret.ok THEN after
             ELSE ConvertLoop(svg_files, i + 1, after, svg_dir, png_dir, size,
                              ffmpeg) :
                after \in {ConvertStep(svg_files[i], png_file, m, st, size,
                                       ffmpeg) :
                    png_file \in {PngFile(svg_files[i], svg_dir, png_dir)},
                    m \in {mkdir(st.files, st.dirs,
                                 DirName(PngFile(svg_files[i], svg_dir,
                                                 png_dir)), "png_file")}}} :
            TRUE

\* what convert_directory_to_png returns when its loop ends in st
Returned(st) ==
    [ret |-> IF st.ret.ok THEN Ok(st.successful) ELSE st.ret,
     files |-> st.files, dirs |-> st.dirs, log |-> st.log]

\* convert_directory_to_png in the file system and after the output of st;
\* svg_files lists what glob yields, in its order (one of
\* Orders(GlobAfterMkdir(st.files, st.dirs, svg_dir, png_dir))), ffmpeg is
\* the end of each run
convert_directory_to_png(svg_dir, png_dir, size, st, svg_files, ffmpeg) ==
    CHOOSE end \in
        {IF ~m.ret.ok
         THEN [ret |-> m.ret, files |-> st.files, dirs |-> m.dirs,
               log |-> st.log]
         ELSE IF svg_files = <<>>
         THEN [ret |-> Ok(0), files |-> st.files, dirs |-> m.dirs,
               log |-> st.log]
         ELSE Returned(ConvertLoop(svg_files, 1,
                        [ret |-> Ok(0), files |-> st.files, dirs |-> m.dirs,
                         log |-> st.log, successful |-> 0],
                        svg_dir, png_dir, size, ffmpeg)) :
            m \in {mkdir(st.files, st.dirs, PathOf(png_dir), "png_dir")}} :
        TRUE

(***************************************************************************)
(* main of export_hex_maps.py.  The lines it prints are recorded by        *)
(* blocks: the banner, each heading, the closing summary with the two PNG  *)
(* counts it shows.                                                        *)
(***************************************************************************)
\* Path('/home/ubuntu/hexhaven/campaigns')
campaigns_dir == Chars["/home/ubuntu/hexhaven/campaigns"]
\* pathlib's path / name
Div(path, name) == PathDiv(path, Chars[name])
\* print of a block of fixed lines
Say(st, block) == [st EXCEPT !.log = Append(@, [kind |-> block])]

\* the four directories that main exports into and converts, by the names
\* of the record that holds the glob order of each
SvgDirs ==
    [clean_a |-> Div(Div(campaigns_dir, "hex-maps-clean"), "arcane-conspiracy"),
     clean_v |-> Div(Div(campaigns_dir, "hex-maps-clean"), "void-expansion"),
     full_a |-> Div(Div(campaigns_dir, "hex-maps"), "arcane-conspiracy"),
     full_v |-> Div(Div(campaigns_dir, "hex-maps"), "void-expansion")]
\* the directories that main converts into
PngDirs ==
    [clean_a |-> Div(Div(campaigns_dir, "hex-maps-clean-png"), "arcane-conspiracy"),
     clean_v |-> Div(Div(campaigns_dir, "hex-maps-clean-png"), "void-expansion"),
     full_a |-> Div(Div(campaigns_dir, "hex-maps-png"), "arcane-conspiracy"),
     full_v |-> Div(Div(campaigns_dir, "hex-maps-png"), "void-expansion")]
\* the two campaign files of main
JsonFiles ==
    [a |-> Div(campaigns_dir, "arcane-conspiracy-scenarios.json"),
     v |-> Div(campaigns_dir, "void-expansion-scenarios.json")]

\* the glob orders of the four directories in the file system (fs, ds)
MainOrders(fs, ds) ==
    [clean_a : Orders(GlobAfterMkdir(fs, ds, SvgDirs.clean_a, PngDirs.clean_a)),
     clean_v : Orders(GlobAfterMkdir(fs, ds, SvgDirs.clean_v, PngDirs.clean_v)),
     full_a : Orders(GlobAfterMkdir(fs, ds, SvgDirs.full_a, PngDirs.full_a)),
     full_v : Orders(GlobAfterMkdir(fs, ds, SvgDirs.full_v, PngDirs.full_v))]

\* what the four globs of main find, files and directories: every run of
\* ffmpeg in main is on one of them
MainFound(fs, ds) ==
    GlobAfterMkdir(fs, ds, SvgDirs.clean_a, PngDirs.clean_a)
    \cup GlobAfterMkdir(fs, ds, SvgDirs.clean_v, PngDirs.clean_v)
    \cup GlobAfterMkdir(fs, ds, SvgDirs.full_a, PngDirs.full_a)
    \cup GlobAfterMkdir(fs, ds, SvgDirs.full_v, PngDirs.full_v)

\* an exception ends main: once a call has raised, the calls after it are
\* not made
Unless(st, next) == IF ~st.ret.ok THEN st ELSE next

\* the closing lines of main, with the two counts they show
Summary(st, clean_png_count, detailed_png_count) ==
    [ret |-> Ok(PyNone), files |-> st.files, dirs |-> st.dirs,
     log |-> Append(st.log, [kind |-> "summary",
                             clean_png |-> clean_png_count \div 2,
                             detailed_png |-> detailed_png_count \div 2])]

(***************************************************************************)
(* main of load-campaigns.py.  The script lies in the campaigns directory  *)
(* of the repository; the seed files go to backend/prisma/seed-data beside *)
(* it.  The lines printed are recorded by blocks, as for the exporter.     *)
(***************************************************************************)
\* the exception of create_campaign_template, if any, as a list of at most
\* one: the subscripts in the order of the dict display
TemplateErrors(campaign_data) ==
    IF Sub(campaign_data, "campaign") # <<>>
    THEN Sub(campaign_data, "campaign")
    ELSE IF Sub(campaign_data, "scenarios") # <<>>
    THEN Sub(campaign_data, "scenarios")
    ELSE Flat([i \in 1..Len(campaign_data.scenarios) |->
                Sub(campaign_data.scenarios[i], "id")
                    \o Sub(campaign_data.scenarios[i], "name")
                    \o Sub(campaign_data.scenarios[i], "sequence")])

create_campaign_template(campaign_data) ==
    IF TemplateErrors(campaign_data) # <<>>
    THEN TemplateErrors(campaign_data)[1]
    ELSE Ok([name |-> campaign_data.campaign,
             description |-> IntToStr(Len(campaign_data.scenarios))
                                \o Chars[" scenario campaign"],
             deathMode |-> "configurable",
             minPlayers |-> 1,
             maxPlayers |-> 4,
             requireUniqueClasses |-> FALSE,
             scenarios |->
                [i \in 1..Len(campaign_data.scenarios) |->
                    [scenarioId |-> campaign_data.scenarios[i].id,
                     name |-> campaign_data.scenarios[i].name,
                     description |-> GetOr(campaign_data.scenarios[i],
                                           "description", PyNone),
                     unlocksScenarios |-> GetOr(campaign_data.scenarios[i],
                                                "unlocksScenarios", <<>>),
                     isStarting |-> GetOr(campaign_data.scenarios[i],
                                          "isStarting", FALSE),
                     sequence |-> campaign_data.scenarios[i].sequence]]])

\* Path(__file__).parent
script_dir == campaigns_dir
\* the two campaign files
LoaderFiles ==
    [arcane_file |-> Div(script_dir, "arcane-conspiracy-scenarios.json"),
     void_file |-> Div(script_dir, "void-expansion-scenarios.json")]
backend_dir == Div(DirName(script_dir), "backend")
seed_data_dir == Div(Div(backend_dir, "prisma"), "seed-data")
scenarios_output == Div(seed_data_dir, "scenarios-campaigns.json")
templates_output == Div(seed_data_dir, "campaign-templates.json")

\* if not arcane_file.exists() or not void_file.exists(): sys.exit(1)
Find(st) ==
    IF /\ Exists(st.files, st.dirs, LoaderFiles.arcane_file)
       /\ Exists(st.files, st.dirs, LoaderFiles.void_file)
    THEN st
    ELSE [st EXCEPT
            !.ret = Raise("SystemExit", "1"),
            !.log = Append(@, [kind |-> "not_found",
                               expected |-> <<LoaderFiles.arcane_file,
                                              LoaderFiles.void_file>>])]

\* with open(file) as f: json.load(f)
Load(file, st) ==
    [st EXCEPT !.ret = LoadJson(st.files, st.dirs, file, "file")]

\* [convert_scenario(s) for s in data['scenarios']]: the list, or the first
\* exception
ConvertAll(data) ==
    IF Sub(data, "scenarios") # <<>> THEN Sub(data, "scenarios")[1]
    ELSE IF \E i \in 1..Len(data.scenarios) :
                ~convert_scenario(data.scenarios[i]).ok
    THEN convert_scenario(data.scenarios[
            CHOOSE i \in 1..Len(data.scenarios) :
                /\ ~convert_scenario(data.scenarios[i]).ok
                /\ \A j \in 1..(i - 1) :
                    convert_scenario(data.scenarios[j]).ok])
    ELSE Ok([i \in 1..Len(data.scenarios) |->
                convert_scenario(data.scenarios[i]).val])
Converted(data, st) == [st EXCEPT !.ret = ConvertAll(data)]

\* the two lines "Converted n ... scenarios"
SayConverted(st, arcane_scenarios, void_scenarios) ==
    [st EXCEPT !.log = Append(@, [kind |-> "converted",
                                  arcane |-> Len(arcane_scenarios),
                                  void |-> Len(void_scenarios)])]

Template(data, st) == [st EXCEPT !.ret = create_campaign_template(data)]

\* seed_data_dir.mkdir(parents=True, exist_ok=True)
MakeSeedDir(st) ==
    [st EXCEPT
        !.ret = mkdir(st.files, st.dirs, seed_data_dir, "seed_data_dir").ret,
        !.dirs = mkdir(st.files, st.dirs, seed_data_dir, "seed_data_dir").dirs]

\* with open(file, 'w') as f: json.dump(value, f), and the line "Saved"
Save(file, value, st) ==
    IF ~OpenWrite(st.files, st.dirs, file, "file").ok
    THEN [st EXCEPT !.ret = OpenWrite(st.files, st.dirs, file, "file")]
    ELSE [st EXCEPT
            !.ret = Ok(PyNone),
            !.files = WriteFiles(@,
                <<[path |-> OpenWrite(st.files, st.dirs, file, "file").val,
                   content |-> [json |-> value]]>>),
            !.log = Append(@, [kind |-> "saved", file |-> file])]

\* the closing lines, with the two paths relative to the repository, and
\* return 0
Complete(st) ==
    [st EXCEPT
        !.ret = Ok(0),
        !.log = Append(@, [kind |-> "complete",
                           generated |->
                             <<RelativeTo(scenarios_output,
                                          DirName(backend_dir)),
                               RelativeTo(templates_output,
                                          DirName(backend_dir))>>])]

(***************************************************************************)
(* The calls of the model: the arguments each function is applied to.      *)
(***************************************************************************)
\* an optional key of a dict: absent (PyNone) or present with a value
Opt(k, o) == IF IsNone(o) THEN <<>> ELSE (k :> o.some)
Maybe(S) == {PyNone} \cup {Some(v) : v \in S}

Terrains == {"normal", "difficult", "obstacle"}
\* axial coordinates of the entities: an odd negative column, column 0 and
\* an even column; a negative and a positive row
AxialQ == {-3, 0, 2}
AxialR == {-1, 2}

HexCells == [q : AxialQ, r : AxialR, terrain : Terrains]
\* pairs of cells whose coordinates have one and two digits, of either sign
WideCoords == {-11, -1, 1, 11}
WideCells == [q : WideCoords, r : WideCoords, terrain : {"normal"}]
StartingPositions == [q : AxialQ, r : AxialR, player : {0, 1}]

\* a monster position: {q,r}, {x,y}, both shapes at once, or neither
AxialPositions == {[q |-> -3, r |-> 2], [q |-> 2, r |-> -1]}
CartesianPositions == {[x |-> 0, y |-> -1]}
BothPositions == {[q |-> -1, r |-> 0, x |-> 7, y |-> 7]}
MalformedPositions ==
    {[q |-> 1], [x |-> 1, r |-> 1], [json_str |-> "3,2"]}
MonsterPositions ==
    AxialPositions \cup CartesianPositions \cup BothPositions
        \cup MalformedPositions

MonsterGroups ==
    {Opt("type", t) @@ Opt("positions", ps) @@ Opt("elite", es)
        @@ Opt("level", l) :
        t \in Maybe({"enemy-elite"}),
        ps \in Maybe(SeqsUpTo(MonsterPositions, MaxLen)),
        es \in Maybe(SeqsUpTo(BOOLEAN, MaxLen)),
        l \in Maybe({"hard"})}

\* the groups of the lists of several groups
SampleGroups ==
    {[type |-> "enemy-elite", positions |-> <<[q |-> -3, r |-> 2]>>,
      elite |-> <<TRUE>>, level |-> "hard"],
     [positions |-> <<[x |-> 3, y |-> 2], [json_str |-> "3,2"]>>],
     <<>>}

MonsterGroupLists ==
    {<<g>> : g \in MonsterGroups} \cup SeqsUpTo(SampleGroups, MaxLen)

TreasureAxials == {<<-3, 2>>, <<0, 0>>, <<2, -1>>}
TreasureIds == {<<"g", "o", "l", "d">>}
Treasures ==
    {Opt("position", p) @@ Opt("id", i) :
        p \in {Some([q |-> a[1], r |-> a[2]]) : a \in TreasureAxials},
        i \in Maybe(TreasureIds)}
    \cup {Opt("q", Some(a[1])) @@ Opt("r", Some(a[2])) @@ Opt("id", i) :
        a \in TreasureAxials, i \in Maybe(TreasureIds)}
    \cup {Opt("id", i) : i \in Maybe(TreasureIds)}
    \cup {[position |-> [q |-> -3, r |-> 2], q |-> 2, r |-> -1]}

ObjectiveTypes ==
    {"collect-items", "protect-allies", "reach-location", "mystery-type"}
Objectives ==
    {Opt("type", t) @@ Opt("id", i) @@ Opt("description", d) :
        t \in Maybe(ObjectiveTypes),
        i \in Maybe({<<"o", "b", "j">>}),
        d \in Maybe({"Hold the gate"})}

\* the scenarios: entities on a few axial pairs, with the optional keys
\* present or absent
ScenarioAxials == {<<-3, 2>>, <<-1, 0>>, <<0, 0>>, <<2, -1>>}
ScenarioCells ==
    {[q |-> a[1], r |-> a[2], terrain |-> "normal"] : a \in ScenarioAxials}
ScenarioStarts ==
    {[q |-> a[1], r |-> a[2], player |-> 0] : a \in ScenarioAxials}
ScenarioMonsters ==
    {PyNone, Some(<<>>)}
    \cup {Some(<<[type |-> "enemy-elite",
                  positions |-> <<[q |-> a[1], r |-> a[2]]>>]>>) :
            a \in ScenarioAxials}
ScenarioTreasures ==
    {PyNone}
    \cup {Some(<<[position |-> [q |-> a[1], r |-> a[2]]]>>) :
            a \in ScenarioAxials}
    \cup {Some(<<[q |-> a[1], r |-> a[2]]>>) : a \in ScenarioAxials}

EntityScenarios ==
    {[name |-> "Crypt", sequence |-> 1, difficulty |-> 2,
      mapHexes |-> cells, startingPositions |-> starts]
        @@ Opt("monsterGroups", m) @@ Opt("treasures", t) :
        cells \in SeqsUpTo(ScenarioCells, 1),
        starts \in SeqsUpTo(ScenarioStarts, 1),
        m \in ScenarioMonsters,
        t \in ScenarioTreasures}

\* a scenario with every key, and the same with one key dropped
FullScenario ==
    [name |-> "Crypt", sequence |-> 1, difficulty |-> 2,
     mapHexes |-> <<[q |-> -1, r |-> 0, terrain |-> "difficult"]>>,
     startingPositions |-> <<[q |-> 0, r |-> 0, player |-> 0]>>,
     monsterGroups |-> <<[type |-> "enemy-elite",
                          positions |-> <<[q |-> 2, r |-> -1]>>,
                          elite |-> <<TRUE>>, level |-> "hard"]>>,
     objectives |-> <<[type |-> "protect-allies"]>>,
     treasures |-> <<[position |-> [q |-> -3, r |-> 2]]>>,
     background |-> [image |-> "crypt.png", opacity |-> 50]]

DropKey(d, k) == [j \in DOMAIN d \ {k} |-> d[j]]

StructuralScenarios ==
    {FullScenario} \cup {DropKey(FullScenario, k) : k \in DOMAIN FullScenario}

\* a scenario with every key and the irregularities of the error taxonomy
\* in every combination: positions of neither shape, objective types outside
\* the table, a cell given twice, an elite list shorter than the positions
IrregularPositions ==
    {[q |-> 2, r |-> -1], [x |-> 0, y |-> -1], [q |-> 1],
     [json_str |-> "3,2"], PyNone}
IrregularMonsters ==
    {<<[type |-> "enemy-elite", positions |-> <<p1, p2>>] @@ Opt("elite", e)>> :
        p1 \in IrregularPositions, p2 \in IrregularPositions,
        e \in {PyNone, Some(<<TRUE>>)}}
IrregularObjectives ==
    {<<[type |-> "defeat-boss"]>>, <<[type |-> "summon-dragons"]>>,
     <<[description |-> "untyped"]>>}
IrregularCellLists ==
    {<<[q |-> -1, r |-> 0, terrain |-> "difficult"]>>,
     <<[q |-> -1, r |-> 0, terrain |-> "difficult"],
       [q |-> -1, r |-> 0, terrain |-> "obstacle"]>>}
IrregularScenarios ==
    {[FullScenario EXCEPT !.monsterGroups = m, !.objectives = o,
                          !.mapHexes = c] :
        m \in IrregularMonsters, o \in IrregularObjectives,
        c \in IrregularCellLists}

\* scenarios with an entity that is no record with its fields: a cell
\* without q (and a str objective), a starting position without r, the
\* background null, and a null or a str where a cell, a monster group, an
\* objective, a treasure or the position of a treasure is expected
UntypedScenarios ==
    {[FullScenario EXCEPT !.mapHexes = <<[r |-> 0, terrain |-> "normal"]>>,
                          !.objectives = <<[json_str |-> "clear all hexes"]>>],
     [FullScenario EXCEPT !.startingPositions = <<[q |-> 0]>>],
     [FullScenario EXCEPT !.background = PyNone],
     [FullScenario EXCEPT !.background = [json_str |-> "crypt.png"]],
     [FullScenario EXCEPT !.mapHexes = <<PyNone>>],
     [FullScenario EXCEPT !.mapHexes = <<[json_str |-> "3,2"]>>],
     [FullScenario EXCEPT !.monsterGroups = <<PyNone>>],
     [FullScenario EXCEPT !.objectives = <<PyNone>>],
     [FullScenario EXCEPT !.objectives = <<[json_str |-> "hold the line"]>>],
     [FullScenario EXCEPT !.treasures = <<PyNone>>],
     [FullScenario EXCEPT !.treasures = <<[json_str |-> "gold"]>>],
     [FullScenario EXCEPT !.treasures = <<[json_str |-> "no position"]>>],
     [FullScenario EXCEPT !.treasures = <<[position |-> PyNone]>>]}

Scenarios ==
    EntityScenarios \cup StructuralScenarios \cup IrregularScenarios
        \cup UntypedScenarios

\* the cells handed to get_bounds: sparse, with negative coordinates
BoundsQ == {-3, 0, 2}
BoundsR == {-1, 0, 4}
BoundsCells == [q : BoundsQ, r : BoundsR, terrain : {"normal"}]

\* the calls of axial_to_pixel: the default hex size and an odd one, the
\* origin 0 and an origin as export_scenario computes it for hex size 50
\* (center_x = 30 + 37.5, center_y = 30 + 25 * sqrt(3))
HexSizes == {50, 3}
CenterXs == {Num(0), [rat |-> 270, irr |-> 0]}
CenterYs == {Num(0), [rat |-> 120, irr |-> 100]}

ExporterCalls ==
    {[op |-> "get_bounds", arg |-> [hexes |-> h]] :
        h \in SeqsUpTo(BoundsCells, MaxLen)}
    \cup {[op |-> "axial_to_pixel",
           arg |-> [hex_size |-> s, q |-> q, r |-> r,
                    center_x |-> cx, center_y |-> cy]] :
        s \in HexSizes, q \in -MaxPixel..MaxPixel, r \in -MaxPixel..MaxPixel,
        cx \in CenterXs, cy \in CenterYs}

\* the scenarios handed to the exporter: one that both modes draw, one
\* without cells, one with a cell given twice, one that the detailed mode
\* cannot draw (elite list shorter than the positions), one without cells
\* and without name, one without mapHexes
ExportBase ==
    [name |-> "Crypt", sequence |-> 1, difficulty |-> 2,
     mapHexes |-> <<[q |-> -1, r |-> 0, terrain |-> "difficult"],
                    [q |-> 2, r |-> -1, terrain |-> "normal"]>>,
     startingPositions |-> <<[q |-> 0, r |-> 0, player |-> 0]>>,
     monsterGroups |-> <<[type |-> "enemy-elite",
                          positions |-> <<[q |-> 2, r |-> -1]>>,
                          elite |-> <<TRUE>>]>>,
     objectives |-> <<[type |-> "reach-location",
                       hexes |-> <<[q |-> -1, r |-> 0]>>]>>,
     treasures |-> <<[position |-> [q |-> -3, r |-> 2]]>>]
ExportScenarios ==
    {ExportBase,
     [ExportBase EXCEPT !.name = "Black Barrow", !.sequence = 2,
                        !.mapHexes = <<>>],
     [ExportBase EXCEPT !.name = "Boss: Lair", !.sequence = 12,
                        !.mapHexes = <<[q |-> -1, r |-> 0, terrain |-> "difficult"],
                                       [q |-> 0, r |-> 0, terrain |-> "normal"],
                                       [q |-> -1, r |-> 0, terrain |-> "obstacle"]>>],
     [ExportBase EXCEPT !.sequence = 4,
                        !.monsterGroups =
                            <<[type |-> "enemy-elite",
                               positions |-> <<[q |-> 2, r |-> -1],
                                               [q |-> 0, r |-> 0]>>,
                               elite |-> <<TRUE>>]>>],
     DropKey([ExportBase EXCEPT !.sequence = 5, !.mapHexes = <<>>], "name"),
     DropKey(ExportBase, "mapHexes")}

\* scenarios that are handed to export_scenario alone; convert_scenario
\* accepts these: a monster position of shape {x,y}, a flat {q,r}
\* treasure, a group without elite list, the single cell (0, 0), a map with
\* a cell in column -3; and two that convert_scenario rejects, an objective
\* being a str (with and without "hexes" in it); a name with a letter
\* outside ASCII; a cell and an objective being null
DetailScenarios ==
    {[ExportBase EXCEPT !.sequence = 6,
                        !.monsterGroups =
                            <<[type |-> "enemy-elite",
                               positions |-> <<[x |-> 0, y |-> -1]>>,
                               elite |-> <<FALSE>>]>>],
     [ExportBase EXCEPT !.sequence = 7, !.treasures = <<[q |-> -3, r |-> 2]>>],
     [ExportBase EXCEPT !.sequence = 8,
                        !.monsterGroups =
                            <<[type |-> "enemy-elite",
                               positions |-> <<[q |-> 2, r |-> -1]>>]>>],
     [ExportBase EXCEPT !.sequence = 11,
                        !.objectives = <<[json_str |-> "clear all hexes"]>>],
     [ExportBase EXCEPT !.sequence = 13,
                        !.objectives = <<[json_str |-> "hold the line"]>>],
     [ExportBase EXCEPT !.sequence = 14, !.name = "École"],
     [ExportBase EXCEPT !.sequence = 15, !.mapHexes = <<PyNone>>],
     [ExportBase EXCEPT !.sequence = 16, !.objectives = <<PyNone>>],
     [ExportBase EXCEPT !.sequence = 9,
                        !.mapHexes = <<[q |-> 0, r |-> 0, terrain |-> "normal"]>>],
     [ExportBase EXCEPT !.sequence = 10,
                        !.mapHexes = <<[q |-> -3, r |-> 0, terrain |-> "normal"],
                                       [q |-> 0, r |-> 0, terrain |-> "normal"]>>]}

\* the parsed campaign files: up to MaxScenarios scenarios, and a file
\* without each of the two keys
Campaigns ==
    {[campaign |-> "intro", scenarios |-> ss] :
        ss \in SeqsUpTo(ExportScenarios, MaxScenarios)}
    \cup {[campaign |-> "intro"], [scenarios |-> <<>>]}

\* the campaign files that main finds: one scenario each, or none, or no
\* campaign name
MainCampaigns ==
    {[campaign |-> "intro", scenarios |-> <<sc>>] : sc \in ExportScenarios}
    \cup {[campaign |-> "intro", scenarios |-> <<>>], [scenarios |-> <<>>]}

\* a campaign file at path, or no file
JsonFile(path, data) ==
    IF IsNone(data) THEN {}
    ELSE {[path |-> path, content |-> [json |-> data.some]]}

\* the file systems main starts on: each of its two campaign files is there
\* or not; and one in which an earlier run has left a directory old.svg
\* among the clean maps
MainFileSystems ==
    {[files |-> JsonFile(JsonFiles.a, a) \cup JsonFile(JsonFiles.v, v),
      dirs |-> Prefixes(campaigns_dir)] :
        a \in Maybe(MainCampaigns), v \in Maybe(MainCampaigns)}
    \cup {[files |-> JsonFile(JsonFiles.a, Some(a))
                      \cup JsonFile(JsonFiles.v, Some(a)),
            dirs |-> Prefixes(Div(SvgDirs.clean_a, "old.svg"))] :
            a \in MainCampaigns}

\* the campaign files that load-campaigns.py finds: a scenario with an id,
\* no scenario, a scenario without id, a scenario with a str objective, and
\* a file without each of the two keys
LoaderScenario == ("id" :> "crypt-1") @@ FullScenario
LoaderCampaigns ==
    {[campaign |-> "intro", scenarios |-> <<LoaderScenario>>],
     [campaign |-> "intro", scenarios |-> <<>>],
     [campaign |-> "intro", scenarios |-> <<FullScenario>>],
     [campaign |-> "intro",
      scenarios |-> <<[LoaderScenario EXCEPT
                        !.objectives = <<[json_str |-> "hold the line"]>>]>>],
     [scenarios |-> <<LoaderScenario>>],
     [campaign |-> "intro"]}

\* what can be at the path of a campaign file: nothing, a campaign file, a
\* file that holds no JSON, a directory
AtPath(path) ==
    {[files |-> {}, dirs |-> {}],
     [files |-> {[path |-> path, content |-> [text |-> "<svg>"]]}, dirs |-> {}],
     [files |-> {}, dirs |-> {path}]}
    \cup {[files |-> JsonFile(path, Some(d)), dirs |-> {}] :
            d \in LoaderCampaigns}

\* what can be at backend beside the script directory: nothing, the seed
\* directory with an earlier scenarios file in it, a file, and the path of
\* the templates file being a directory
AtBackend ==
    {[files |-> {}, dirs |-> {}],
     [files |-> {[path |-> scenarios_output, content |-> [json |-> <<>>]]},
      dirs |-> Prefixes(seed_data_dir)],
     [files |-> {[path |-> backend_dir, content |-> [text |-> "<svg>"]]},
      dirs |-> {}],
     [files |-> {}, dirs |-> Prefixes(templates_output)]}

\* the file systems that load-campaigns.py starts on
LoaderFileSystems ==
    {[files |-> a.files \cup v.files \cup b.files,
      dirs |-> Prefixes(script_dir) \cup a.dirs \cup v.dirs \cup b.dirs] :
        a \in AtPath(LoaderFiles.arcane_file),
        v \in AtPath(LoaderFiles.void_file),
        b \in AtBackend}

\* the file system a call starts on: empty, for export_scenario also with
\* the output directory made before
InitialFileSystems(f) ==
    IF f = "main" THEN MainFileSystems
    ELSE IF f = "loader_main" THEN LoaderFileSystems
    ELSE IF f = "export_scenario"
    THEN {[files |-> {}, dirs |-> {}], [files |-> {}, dirs |-> {Chars["maps"]}]}
    ELSE {[files |-> {}, dirs |-> {}]}

\* the output directories other than maps: the empty path, the working
\* directory, maps written in two more ways, and the root directory
\* written with two slashes
OtherDirs ==
    {Chars[""], Chars["."], Chars["maps/"], Chars["./maps"], Chars["//"]}

ExportCalls ==
    {[op |-> "export_scenario",
      arg |-> [scenario |-> sc, clean_mode |-> c, output_dir |-> Chars["maps"],
               campaign_name |-> "intro"]] :
        sc \in ExportScenarios \cup DetailScenarios, c \in BOOLEAN}
    \cup {[op |-> "export_scenario",
           arg |-> [scenario |-> sc, clean_mode |-> c, output_dir |-> d,
                    campaign_name |-> "intro"]] :
        sc \in ExportScenarios, c \in BOOLEAN, d \in OtherDirs}
    \cup {[op |-> "export_campaign",
           arg |-> [data |-> d, clean_mode |-> c, output_dir |-> Chars["maps"]]] :
        d \in Campaigns, c \in BOOLEAN}
    \cup {[op |-> "export_campaign",
           arg |-> [data |-> d, clean_mode |-> c, output_dir |-> o]] :
        d \in MainCampaigns, c \in BOOLEAN, o \in OtherDirs}
    \cup {[op |-> "main", arg |-> <<>>], [op |-> "loader_main", arg |-> <<>>]}

Calls ==
    {[op |-> "hex_to_cartesian", arg |-> [q |-> q, r |-> r]] :
        q \in -MaxQ..MaxQ, r \in -MaxQ..MaxQ}
    \cup {[op |-> "convert_hex_map_to_layout", arg |-> [hexes |-> h]] :
        h \in SeqsUpTo(HexCells, MaxLen) \cup [1..2 -> WideCells]}
    \cup {[op |-> "convert_starting_positions", arg |-> [positions |-> p]] :
        p \in SeqsUpTo(StartingPositions, MaxLen)}
    \cup {[op |-> "convert_monsters",
           arg |-> [monster_groups |-> m, starting_positions |-> <<>>]] :
        m \in MonsterGroupLists}
    \cup {[op |-> "convert_monsters",
           arg |-> [monster_groups |-> <<>>, starting_positions |-> p]] :
        p \in SeqsUpTo(ScenarioStarts, 1)}
    \cup {[op |-> "convert_treasures", arg |-> [treasures |-> t]] :
        t \in SeqsUpTo(Treasures, MaxLen)}
    \cup {[op |-> "convert_objectives", arg |-> [objectives_list |-> o]] :
        o \in Maybe(SeqsUpTo(Objectives, MaxLen))}
    \cup {[op |-> "convert_scenario", arg |-> [scenario |-> s]] :
        s \in Scenarios}
    \cup ExporterCalls
    \cup ExportCalls

(***************************************************************************)
(* The state machine: one call, then its return.                           *)
(***************************************************************************)
Init ==
    /\ \E c \in Calls : op = c.op /\ arg = c.arg
    /\ ret = Pending
    /\ pc = "call"
    /\ \E fs \in InitialFileSystems(op) : files = fs.files /\ dirs = fs.dirs
    /\ log = <<>>

Return(v) ==
    /\ ret' = v
    /\ pc' = "done"
    /\ UNCHANGED <<op, arg, files, dirs, log>>

HexToCartesian ==
    /\ pc = "call" /\ op = "hex_to_cartesian"
    /\ Return(Ok(hex_to_cartesian(arg.q, arg.r)))

ConvertHexMapToLayout ==
    /\ pc = "call" /\ op = "convert_hex_map_to_layout"
    /\ Return(IF LayoutErrors(arg.hexes) # <<>>
              THEN LayoutErrors(arg.hexes)[1]
              ELSE Ok(convert_hex_map_to_layout(arg.hexes)))

ConvertStartingPositions ==
    /\ pc = "call" /\ op = "convert_starting_positions"
    /\ Return(IF StartingPositionErrors(arg.positions) # <<>>
              THEN StartingPositionErrors(arg.positions)[1]
              ELSE Ok(convert_starting_positions(arg.positions)))

ConvertMonsters ==
    /\ pc = "call" /\ op = "convert_monsters"
    /\ Return(IF MonsterGroupErrors(arg.monster_groups) # <<>>
              THEN MonsterGroupErrors(arg.monster_groups)[1]
              ELSE Ok(convert_monsters(arg.monster_groups,
                                       arg.starting_positions)))

ConvertTreasures ==
    /\ pc = "call" /\ op = "convert_treasures"
    /\ Return(IF TreasureListErrors(arg.treasures) # <<>>
              THEN TreasureListErrors(arg.treasures)[1]
              ELSE Ok(convert_treasures(arg.treasures)))

ConvertObjectives ==
    /\ pc = "call" /\ op = "convert_objectives"
    /\ Return(IF ObjectivesError(IF IsNone(arg.objectives_list) THEN <<>>
                                ELSE arg.objectives_list.some) # <<>>
              THEN ObjectivesError(arg.objectives_list.some)[1]
              ELSE Ok(convert_objectives(arg.objectives_list)))

ConvertScenario ==
    /\ pc = "call" /\ op = "convert_scenario"
    /\ ret' = convert_scenario(arg.scenario)
    /\ arg' = [scenario |-> InputAfterCall(arg.scenario)]
    /\ pc' = "done"
    /\ UNCHANGED <<op, files, dirs, log>>

\* the engine record that convert_scenario returned is handed to
\* convert_scenario again
Refeed ==
    /\ pc = "done" /\ op = "convert_scenario"
    /\ ret.ok
    /\ ~Has(arg.scenario, "mapLayout")
    /\ arg' = [scenario |-> ret.val]
    /\ ret' = Pending
    /\ pc' = "call"
    /\ UNCHANGED <<op, files, dirs, log>>

GetBounds ==
    /\ pc = "call" /\ op = "get_bounds"
    /\ Return(Ok(get_bounds(arg.hexes)))

AxialToPixel ==
    /\ pc = "call" /\ op = "axial_to_pixel"
    /\ Return(Ok(axial_to_pixel(arg.hex_size, arg.q, arg.r,
                                arg.center_x, arg.center_y)))

ExportScenario ==
    /\ pc = "call" /\ op = "export_scenario"
    /\ LET o == export_scenario(arg.scenario, arg.clean_mode, arg.output_dir,
                                arg.campaign_name, files, dirs)
       IN  /\ ret' = o.ret
           /\ files' = WriteFiles(files, o.written)
           /\ log' = log \o o.printed
    /\ pc' = "done"
    /\ UNCHANGED <<op, arg, dirs>>

ExportCampaign ==
    /\ pc = "call" /\ op = "export_campaign"
    /\ LET o == export_campaign(arg.data, arg.clean_mode, arg.output_dir,
                                files, dirs, log)
       IN  /\ ret' = o.ret
           /\ files' = o.files
           /\ dirs' = o.dirs
           /\ log' = o.log
    /\ pc' = "done"
    /\ UNCHANGED <<op, arg>>

\* exporter.convert_svg_to_png(svg_file, png_file), called after an export
\* on a file it wrote or on a file that is not there
ConvertSvgToPng ==
    /\ pc = "done" /\ op = "export_scenario"
    /\ \E svg_file \in {f.path : f \in files}
                        \cup {PathJoin(Chars["maps"], Chars["missing.svg"])},
          png_file \in {PathJoin(Chars["maps"], Chars["a.png"]),
                        PathJoin(Chars["png"], Chars["a.png"])} :
        \E outcome \in FfmpegCan(files, dirs, svg_file, png_file) :
            LET o == convert_svg_to_png(svg_file, png_file, DefaultSize,
                                        files, outcome)
            IN  /\ ret' = o.ret
                /\ files' = o.files
                /\ arg' = [svg_file |-> svg_file, png_file |-> png_file,
                           size |-> DefaultSize]
    /\ op' = "convert_svg_to_png"
    /\ UNCHANGED <<pc, dirs, log>>

\* the png_dir of the calls of convert_directory_to_png: a directory beside
\* the SVG directory and one inside it; after an export of at most one file
\* also the working directory and the path of the file that is there
PngDirChoices(fs) ==
    {Chars["png"], Chars["maps/png"]}
        \cup (IF Cardinality(fs) <= 1
              THEN {<<>>} \cup {f.path : f \in fs} ELSE {})

\* convert_directory_to_png(svg_dir, png_dir), called after an export on the
\* directory it wrote into
ConvertDirectoryToPng ==
    /\ pc = "done" /\ op \in {"export_scenario", "export_campaign"}
    /\ \E png_dir \in PngDirChoices(files) :
       \E found \in {GlobAfterMkdir(files, dirs, arg.output_dir, png_dir)} :
       \E order \in Orders(found), ffmpeg \in [found -> FfmpegOutcomes] :
        LET o == convert_directory_to_png(arg.output_dir, png_dir,
                    DefaultSize,
                    [files |-> files, dirs |-> dirs, log |-> log],
                    order, ffmpeg)
        IN  /\ ret' = o.ret
            /\ files' = o.files
            /\ dirs' = o.dirs
            /\ log' = o.log
            /\ arg' = [svg_dir |-> arg.output_dir, png_dir |-> png_dir,
                       size |-> DefaultSize]
    /\ op' = "convert_directory_to_png"
    /\ UNCHANGED pc

\* main: the banner, the four exports, the four conversions, the summary.
\* Each call is made on what the call before it left.
Main ==
    /\ pc = "call" /\ op = "main"
    /\ \E e1 \in {export_campaign_file(JsonFiles.a, TRUE, SvgDirs.clean_a,
                        Say(Say([files |-> files, dirs |-> dirs, log |-> log],
                                "banner"), "generating_clean"))} :
       \E e2 \in {Unless(e1, export_campaign_file(JsonFiles.v, TRUE,
                                                   SvgDirs.clean_v, e1))} :
       \E e3 \in {Unless(e2, export_campaign_file(JsonFiles.a, FALSE,
                                SvgDirs.full_a,
                                Say(e2, "generating_detailed")))} :
       \E e4 \in {Unless(e3, export_campaign_file(JsonFiles.v, FALSE,
                                                   SvgDirs.full_v, e3))} :
       \E order \in MainOrders(e4.files, e4.dirs),
          ffmpeg \in [MainFound(e4.files, e4.dirs) -> FfmpegOutcomes] :
       \E c1 \in {Unless(e4, convert_directory_to_png(
                                SvgDirs.clean_a, PngDirs.clean_a, DefaultSize,
                                Say(Say(e4, "converting"), "converting_clean"),
                                order.clean_a, ffmpeg))} :
       \E c2 \in {Unless(c1, convert_directory_to_png(
                                SvgDirs.clean_v, PngDirs.clean_v, DefaultSize,
                                c1, order.clean_v, ffmpeg))} :
       \E c3 \in {Unless(c2, convert_directory_to_png(
                                SvgDirs.full_a, PngDirs.full_a, DefaultSize,
                                Say(c2, "converting_detailed"),
                                order.full_a, ffmpeg))} :
       \E c4 \in {Unless(c3, convert_directory_to_png(
                                SvgDirs.full_v, PngDirs.full_v, DefaultSize,
                                c3, order.full_v, ffmpeg))} :
       \E o \in {Unless(c4, Summary(c4, c1.ret.val + c2.ret.val,
                                     c3.ret.val + c4.ret.val))} :
            /\ ret' = o.ret
            /\ files' = o.files
            /\ dirs' = o.dirs
            /\ log' = o.log
    /\ pc' = "done"
    /\ UNCHANGED <<op, arg>>

\* main of load-campaigns.py: the banner, the two files found and loaded,
\* the scenarios converted, the templates made, the seed directory made, the
\* two seed files written.  An exception ends it where it is raised.
LoaderMain ==
    /\ pc = "call" /\ op = "loader_main"
    /\ \E found \in {Find(Say([ret |-> Ok(PyNone), files |-> files,
                                dirs |-> dirs, log |-> log], "banner"))} :
       \E a \in {Unless(found, Load(LoaderFiles.arcane_file,
                                     Say(found, "loading_arcane")))} :
       \E v \in {Unless(a, Load(LoaderFiles.void_file,
                                 Say(a, "loading_void")))} :
       \E ca \in {Unless(v, Converted(a.ret.val, Say(v, "converting")))} :
       \E cv \in {Unless(ca, Converted(v.ret.val, ca))} :
       \E ta \in {Unless(cv, Template(a.ret.val,
                        Say(SayConverted(cv, ca.ret.val, cv.ret.val),
                            "creating")))} :
       \E tv \in {Unless(ta, Template(v.ret.val, ta))} :
       \E m \in {Unless(tv, MakeSeedDir(tv))} :
       \E w1 \in {Unless(m, Save(scenarios_output,
                                  ca.ret.val \o cv.ret.val, m))} :
       \E w2 \in {Unless(w1, Save(templates_output,
                                   <<ta.ret.val, tv.ret.val>>, w1))} :
       \E o \in {Unless(w2, Complete(w2))} :
            /\ ret' = o.ret
            /\ files' = o.files
            /\ dirs' = o.dirs
            /\ log' = o.log
    /\ pc' = "done"
    /\ UNCHANGED <<op, arg>>

Next ==
    \/ HexToCartesian
    \/ ConvertHexMapToLayout
    \/ ConvertStartingPositions
    \/ ConvertMonsters
    \/ ConvertTreasures
    \/ ConvertObjectives
    \/ ConvertScenario
    \/ Refeed
    \/ GetBounds
    \/ AxialToPixel
    \/ ExportScenario
    \/ ExportCampaign
    \/ ConvertSvgToPng
    \/ ConvertDirectoryToPng
    \/ Main
    \/ LoaderMain

Spec == Init /\ [][Next]_vars

TypeOK ==
    /\ pc \in {"call", "done"}
    /\ pc = "call" => ret = Pending
    /\ pc = "done" => "ok" \in DOMAIN ret

(***************************************************************************)
(* Properties.                                                             *)
(***************************************************************************)
Done(f) == pc = "done" /\ op = f

\* floor(q / 2), stated without a division: the k with 2k <= q < 2k + 2
Floor2(q) == CHOOSE k \in -(MaxQ + 1)..(MaxQ + 1) : 2 * k <= q /\ q < 2 * k + 2

\* the odd-q offset cell of the axial pair (q, r), as the record {x, y}
Offset(q, r) == [x |-> q, y |-> r + Floor2(q)]

\* the shape of a monster position
Shape(pos) ==
    IF "json_str" \in DOMAIN pos THEN "neither"
    ELSE IF {"q", "r"} \subseteq DOMAIN pos THEN "axial"
    ELSE IF {"x", "y"} \subseteq DOMAIN pos THEN "cartesian"
    ELSE "neither"

\* C1: hex_to_cartesian(q, r) is (q, r + floor(q / 2)) for every q and r,
\* negative and odd negative q included; (0,0) -> (0,0), (1,0) -> (1,0),
\* (1,-1) -> (1,-1), (2,0) -> (2,1).
C1_OffsetFormula ==
    Done("hex_to_cartesian") =>
        /\ ret = Ok(<<arg.q, arg.r + Floor2(arg.q)>>)
        /\ (arg.q = 0 /\ arg.r = 0) => ret.val = <<0, 0>>
        /\ (arg.q = 1 /\ arg.r = 0) => ret.val = <<1, 0>>
        /\ (arg.q = 1 /\ arg.r = -1) => ret.val = <<1, -1>>
        /\ (arg.q = 2 /\ arg.r = 0) => ret.val = <<2, 1>>

\* an odd negative column: (-3, 1) is placed on row 1 + floor(-3/2) = -1
C1_Witness ==
    /\ Done("hex_to_cartesian")
    /\ arg.q = -3 /\ arg.r = 1
    /\ ret.val = <<-3, -1>>

\* the axial pair and the engine cell of every entity of a converted
\* scenario: cells, starting positions, {q,r} monster positions of the groups
\* that keep all their positions, treasures in either form
Placements(scenario, out) ==
    {<<<<scenario.mapHexes[i].q, scenario.mapHexes[i].r>>,
       <<out.mapLayout[i].x, out.mapLayout[i].y>>>> :
        i \in 1..Len(scenario.mapHexes)}
    \cup
    {<<<<scenario.startingPositions[i].q, scenario.startingPositions[i].r>>,
       <<out.playerStartPositions[i].x, out.playerStartPositions[i].y>>>> :
        i \in 1..Len(scenario.startingPositions)}
    \cup
    (IF "monsterGroups" \in DOMAIN scenario
     THEN UNION {
            {<<<<scenario.monsterGroups[g].positions[k].q,
                 scenario.monsterGroups[g].positions[k].r>>,
               <<out.monsterGroups[g].positions[k].x,
                 out.monsterGroups[g].positions[k].y>>>> :
                k \in {j \in 1..Len(scenario.monsterGroups[g].positions) :
                        /\ Len(out.monsterGroups[g].positions)
                             = Len(scenario.monsterGroups[g].positions)
                        /\ Shape(scenario.monsterGroups[g].positions[j])
                             = "axial"}} :
            g \in {h \in 1..Len(scenario.monsterGroups) :
                    "positions" \in DOMAIN scenario.monsterGroups[h]}}
     ELSE {})
    \cup
    (IF "treasures" \in DOMAIN scenario
     THEN {<<IF "position" \in DOMAIN scenario.treasures[i]
             THEN <<scenario.treasures[i].position.q,
                    scenario.treasures[i].position.r>>
             ELSE <<scenario.treasures[i].q, scenario.treasures[i].r>>,
             <<out.treasures[i].x, out.treasures[i].y>>>> :
            i \in 1..Len(scenario.treasures)}
     ELSE {})

\* C2: in the output of convert_scenario, entities on the same axial (q, r)
\* (a cell, a starting position, a {q,r} monster position, a treasure in
\* nested or flat form) have the same engine coordinates, the offset cell of
\* (q, r).
C2_SameAxialSameCell ==
    (Done("convert_scenario") /\ ret.ok) =>
        LET P == Placements(arg.scenario, ret.val)
        IN  /\ \A a, b \in P : a[1] = b[1] => a[2] = b[2]
            /\ \A a \in P : a[2] = <<a[1][1], a[1][2] + Floor2(a[1][1])>>

\* a cell, a starting position, a monster and a flat treasure, all on (-3, 2),
\* all placed on (-3, 0)
C2_Witness ==
    /\ Done("convert_scenario") /\ ret.ok
    /\ "monsterGroups" \in DOMAIN arg.scenario
    /\ "treasures" \in DOMAIN arg.scenario
    /\ arg.scenario.mapHexes = <<[q |-> -3, r |-> 2, terrain |-> "normal"]>>
    /\ arg.scenario.startingPositions = <<[q |-> -3, r |-> 2, player |-> 0]>>
    /\ Len(arg.scenario.monsterGroups) = 1
    /\ arg.scenario.monsterGroups[1].positions = <<[q |-> -3, r |-> 2]>>
    /\ arg.scenario.treasures = <<[q |-> -3, r |-> 2]>>
    /\ ret.val.mapLayout[1].x = -3 /\ ret.val.mapLayout[1].y = 0
    /\ ret.val.playerStartPositions = <<[x |-> -3, y |-> 0]>>
    /\ ret.val.monsterGroups[1].positions = <<[x |-> -3, y |-> 0]>>
    /\ ret.val.treasures[1].x = -3 /\ ret.val.treasures[1].y = 0

\* C3: two input cells with different axial pairs, negative coordinates
\* included, get different ids 'hex-{q}-{r}'.
C3_IdsDistinct ==
    Done("convert_hex_map_to_layout") =>
        \A i, j \in 1..Len(arg.hexes) :
            <<arg.hexes[i].q, arg.hexes[i].r>> # <<arg.hexes[j].q, arg.hexes[j].r>>
                => ret.val[i].id # ret.val[j].id

\* (1, -11) and (11, -1): 'hex-1--11' and 'hex-11--1'
C3_Witness ==
    /\ Done("convert_hex_map_to_layout")
    /\ Len(arg.hexes) = 2
    /\ arg.hexes[1].q = 1 /\ arg.hexes[1].r = -11
    /\ arg.hexes[2].q = 11 /\ arg.hexes[2].r = -1
    /\ ret.val[1].id = <<"h", "e", "x", "-", "1", "-", "-", "1", "1">>
    /\ ret.val[2].id = <<"h", "e", "x", "-", "1", "1", "-", "-", "1">>

\* C4: when two input cells share (q, r) and differ in terrain, mapLayout has
\* exactly one entry with the id 'hex-{q}-{r}', carrying the terrain of the
\* later cell (last-write-wins).
C4_DuplicateLastWins ==
    Done("convert_hex_map_to_layout") =>
        \A i, j \in 1..Len(arg.hexes) :
            (/\ i < j
             /\ arg.hexes[i].q = arg.hexes[j].q
             /\ arg.hexes[i].r = arg.hexes[j].r
             /\ arg.hexes[i].terrain # arg.hexes[j].terrain
             /\ \A k \in (j + 1)..Len(arg.hexes) :
                    <<arg.hexes[k].q, arg.hexes[k].r>>
                        # <<arg.hexes[j].q, arg.hexes[j].r>>)
            => /\ Cardinality({k \in 1..Len(ret.val) :
                                ret.val[k].id = ret.val[j].id}) = 1
               /\ \A k \in 1..Len(ret.val) :
                    ret.val[k].id = ret.val[j].id
                        => ret.val[k].terrain = arg.hexes[j].terrain

\* C5: every monster group emitted by convert_monsters, the synthetic
\* default group included, has an elite sequence as long as its positions.
C5_EliteLength ==
    Done("convert_monsters") =>
        \A g \in 1..Len(ret.val) :
            /\ "elite" \in DOMAIN ret.val[g]
            /\ Len(ret.val[g].elite) = Len(ret.val[g].positions)

\* C6: with monsterGroups absent or empty the output has exactly one monster
\* group, with one position at the fixed placement (3, 2) and level "normal",
\* whatever the starting positions and the other fields are.
C6_DefaultGroup ==
    /\ (Done("convert_monsters") /\ Len(arg.monster_groups) = 0) =>
            /\ Len(ret.val) = 1
            /\ ret.val[1].positions = <<[x |-> 3, y |-> 2]>>
            /\ ret.val[1].level = "normal"
    /\ (/\ Done("convert_scenario") /\ ret.ok
        /\ \/ "monsterGroups" \notin DOMAIN arg.scenario
           \/ Len(arg.scenario.monsterGroups) = 0) =>
            /\ Len(ret.val.monsterGroups) = 1
            /\ ret.val.monsterGroups[1].positions = <<[x |-> 3, y |-> 2]>>
            /\ ret.val.monsterGroups[1].level = "normal"

\* a scenario without the key monsterGroups, with a starting position
C6_Witness ==
    /\ Done("convert_scenario") /\ ret.ok
    /\ "monsterGroups" \notin DOMAIN arg.scenario
    /\ Len(arg.scenario.startingPositions) = 1
    /\ Len(ret.val.monsterGroups) = 1
    /\ ret.val.monsterGroups[1].positions = <<[x |-> 3, y |-> 2]>>

\* the retained positions of a group: the 1-based input indices whose entry
\* has one of the two shapes
Retained(ps) == {i \in 1..Len(ps) : Shape(ps[i]) # "neither"}

\* C7: for each present group the output positions are the input positions
\* of shape {q,r}, converted, and of shape {x,y} (without both q and r),
\* unchanged, in input order; entries of neither shape are left out, and no
\* error is raised.
C7_PositionsMapped ==
    (Done("convert_monsters") /\ Len(arg.monster_groups) > 0) =>
        /\ ret.ok
        /\ Len(ret.val) = Len(arg.monster_groups)
        /\ \A g \in 1..Len(arg.monster_groups) :
            LET ps == IF "positions" \in DOMAIN arg.monster_groups[g]
                      THEN arg.monster_groups[g].positions ELSE <<>>
                out == ret.val[g].positions
            IN  /\ Len(out) = Cardinality(Retained(ps))
                /\ \A i \in Retained(ps) :
                    LET k == Cardinality({j \in Retained(ps) : j <= i})
                    IN  out[k] = IF Shape(ps[i]) = "axial"
                                 THEN Offset(ps[i].q, ps[i].r)
                                 ELSE ps[i]

\* a malformed entry dropped before a kept one, and an entry with both shapes
\* converted from its q and r
C7_Witness ==
    /\ Done("convert_monsters") /\ Len(arg.monster_groups) = 1
    /\ "positions" \in DOMAIN arg.monster_groups[1]
    /\ Len(arg.monster_groups[1].positions) = 2
    /\ Shape(arg.monster_groups[1].positions[1]) = "neither"
    /\ arg.monster_groups[1].positions[2] = [q |-> -1, r |-> 0, x |-> 7, y |-> 7]
    /\ ret.val[1].positions = <<[x |-> -1, y |-> -1]>>

\* C8: convert_treasures emits one treasure per input treasure, in input
\* order; a treasure keeps its id, and one without an id, at 0-based index i,
\* gets "treasure-{i}".
C8_TreasureIds ==
    Done("convert_treasures") =>
        /\ Len(ret.val) = Len(arg.treasures)
        /\ \A i \in 1..Len(arg.treasures) :
            LET t == arg.treasures[i]
                a == IF "position" \in DOMAIN t
                     THEN <<t.position.q, t.position.r>>
                     ELSE <<IF "q" \in DOMAIN t THEN t.q ELSE 0,
                            IF "r" \in DOMAIN t THEN t.r ELSE 0>>
            IN  /\ ret.val[i].id =
                      IF "id" \in DOMAIN t THEN t.id
                      ELSE <<"t", "r", "e", "a", "s", "u", "r", "e", "-">>
                               \o IntToStr(i - 1)
                /\ ret.val[i].x = a[1]
                /\ ret.val[i].y = a[2] + Floor2(a[1])

\* a treasure with an id, then one without: "gold", then "treasure-1"
C8_Witness ==
    /\ Done("convert_treasures")
    /\ Len(arg.treasures) = 2
    /\ "id" \in DOMAIN arg.treasures[1]
    /\ "id" \notin DOMAIN arg.treasures[2]
    /\ ret.val[1].id = <<"g", "o", "l", "d">>
    /\ ret.val[2].id = <<"t", "r", "e", "a", "s", "u", "r", "e", "-", "1">>

\* the canonical type of an input objective
CanonicalType(obj) ==
    IF "type" \notin DOMAIN obj THEN "collect_treasure"
    ELSE CASE obj.type = "collect-items" -> "collect_treasure"
           [] obj.type = "protect-allies" -> "protect"
           [] obj.type = "reach-location" -> "reach_location"
           [] OTHER -> "collect_treasure"

\* C9: for any objectives list (None, empty or not) convert_objectives
\* returns the one primary objective kill_all_monsters with milestones
\* [25, 50, 75, 100], and one secondary objective per input objective, in
\* order, whose type is the table's entry for the input type and
\* "collect_treasure" for a type that is unknown or missing.
C9_Objectives ==
    Done("convert_objectives") =>
        LET objs == IF "none" \in DOMAIN arg.objectives_list THEN <<>>
                    ELSE arg.objectives_list.some
        IN  /\ DOMAIN ret.val = {"primary", "secondary"}
            /\ ret.val.primary.type = "kill_all_monsters"
            /\ ret.val.primary.milestones = <<25, 50, 75, 100>>
            /\ Len(ret.val.secondary) = Len(objs)
            /\ \A i \in 1..Len(objs) :
                /\ ret.val.secondary[i].type = CanonicalType(objs[i])
                /\ "id" \in DOMAIN objs[i]
                    => ret.val.secondary[i].id = objs[i].id

\* "mystery-type" after "protect-allies": "protect", then "collect_treasure"
C9_Witness ==
    /\ Done("convert_objectives")
    /\ "some" \in DOMAIN arg.objectives_list
    /\ Len(arg.objectives_list.some) = 2
    /\ "type" \in DOMAIN arg.objectives_list.some[1]
    /\ "type" \in DOMAIN arg.objectives_list.some[2]
    /\ arg.objectives_list.some[1].type = "protect-allies"
    /\ arg.objectives_list.some[2].type = "mystery-type"
    /\ ret.val.secondary[1].type = "protect"
    /\ ret.val.secondary[2].type = "collect_treasure"

\* C10: convert_starting_positions returns a sequence as long as its input,
\* in the same order, each element exactly {x, y}, the offset cell of the
\* input's (q, r), without the player index.
C10_StartingPositions ==
    Done("convert_starting_positions") =>
        /\ Len(ret.val) = Len(arg.positions)
        /\ \A i \in 1..Len(arg.positions) :
            /\ DOMAIN ret.val[i] = {"x", "y"}
            /\ ret.val[i] = Offset(arg.positions[i].q, arg.positions[i].r)

\* players 1 and 0 on (-3, 2) and (2, -1): (-3, 0), then (2, 0)
C10_Witness ==
    /\ Done("convert_starting_positions")
    /\ arg.positions = <<[q |-> -3, r |-> 2, player |-> 1],
                         [q |-> 2, r |-> -1, player |-> 0]>>
    /\ ret.val = <<[x |-> -3, y |-> 0], [x |-> 2, y |-> 0]>>

\* C11: the mapLayout entry of an input cell (q, r, terrain), terrain one of
\* normal, difficult, obstacle, is {id: 'hex-{q}-{r}', x: q, y: r + floor(q/2),
\* terrain, features: []}: the terrain unchanged, no features.
C11_LayoutEntry ==
    Done("convert_hex_map_to_layout") =>
        /\ Len(ret.val) = Len(arg.hexes)
        /\ \A i \in 1..Len(arg.hexes) :
            ret.val[i] =
                [id |-> <<"h", "e", "x", "-">> \o IntToStr(arg.hexes[i].q)
                            \o <<"-">> \o IntToStr(arg.hexes[i].r),
                 x |-> arg.hexes[i].q,
                 y |-> arg.hexes[i].r + Floor2(arg.hexes[i].q),
                 terrain |-> arg.hexes[i].terrain,
                 features |-> <<>>]

\* a difficult cell on (-3, -1) and an obstacle on (2, 2)
C11_Witness ==
    /\ Done("convert_hex_map_to_layout")
    /\ arg.hexes = <<[q |-> -3, r |-> -1, terrain |-> "difficult"],
                     [q |-> 2, r |-> 2, terrain |-> "obstacle"]>>
    /\ ret.val[1].terrain = "difficult" /\ ret.val[1].y = -3
    /\ ret.val[2].terrain = "obstacle" /\ ret.val[2].y = 3

\* C12: get_bounds returns (0, 0, 0, 0) for no cells; for a non-empty,
\* possibly sparse collection with negative coordinates it returns the
\* minimal bounding box (min_q, max_q, min_r, max_r): every cell lies inside
\* and every bound is attained; {(2,-1), (-3,4)} gives (-3, 2, -1, 4).
C12_Bounds ==
    Done("get_bounds") =>
        LET h == arg.hexes
            b == ret.val
        IN  /\ Len(h) = 0 => b = <<0, 0, 0, 0>>
            /\ Len(h) > 0 =>
                /\ \A i \in 1..Len(h) :
                    /\ b[1] <= h[i].q /\ h[i].q <= b[2]
                    /\ b[3] <= h[i].r /\ h[i].r <= b[4]
                /\ \E i \in 1..Len(h) : h[i].q = b[1]
                /\ \E i \in 1..Len(h) : h[i].q = b[2]
                /\ \E i \in 1..Len(h) : h[i].r = b[3]
                /\ \E i \in 1..Len(h) : h[i].r = b[4]
            /\ (/\ Len(h) = 2
                /\ h[1].q = 2 /\ h[1].r = -1
                /\ h[2].q = -3 /\ h[2].r = 4) => b = <<-3, 2, -1, 4>>

\* the cells (2, -1) and (-3, 4)
C12_Witness ==
    /\ Done("get_bounds")
    /\ Len(arg.hexes) = 2
    /\ arg.hexes[1].q = 2 /\ arg.hexes[1].r = -1
    /\ arg.hexes[2].q = -3 /\ arg.hexes[2].r = 4
    /\ ret.val = <<-3, 2, -1, 4>>

\* C20: axial_to_pixel returns x = origin_x + size * 1.5 * q and
\* y = origin_y + size * (sqrt(3)/2 * q + sqrt(3) * r) for every q, r, origin
\* and hex size, and has no error state.  In quarters: x is
\* 4 * origin_x + 6 * size * q, y is 4 * origin_y + 2 * size * (q + 2r) * sqrt(3).
C20_AxialToPixel ==
    Done("axial_to_pixel") =>
        /\ ret.ok
        /\ ret.val[1] = [rat |-> arg.center_x.rat + 6 * arg.hex_size * arg.q,
                         irr |-> arg.center_x.irr]
        /\ ret.val[2] = [rat |-> arg.center_y.rat,
                         irr |-> arg.center_y.irr
                                   + 2 * arg.hex_size * (arg.q + 2 * arg.r)]

\* hex size 50, origin (67.5, 30 + 25 sqrt(3)), cell (-3, 2):
\* x = 67.5 - 225 = -157.5, y = 30 + 25 sqrt(3) + 50 * sqrt(3)/2
C20_Witness ==
    /\ Done("axial_to_pixel")
    /\ arg.hex_size = 50 /\ arg.q = -3 /\ arg.r = 2
    /\ arg.center_x = [rat |-> 270, irr |-> 0]
    /\ arg.center_y = [rat |-> 120, irr |-> 100]
    /\ ret.val = <<[rat |-> -630, irr |-> 0], [rat |-> 120, irr |-> 200]>>

\* the keys of an engine record
EngineKeys ==
    {"name", "difficulty", "mapLayout", "playerStartPositions",
     "monsterGroups", "objectives", "treasures", "backgroundImageUrl",
     "backgroundOpacity", "backgroundOffsetX", "backgroundOffsetY",
     "backgroundScale"}

\* a monster position that is neither {q,r} nor {x,y}
Malformed(pos) == Shape(pos) = "neither"

\* a dict with the keys ks
IsRecordWith(v, ks) == IsDict(v) /\ ks \subseteq DOMAIN v
\* every entity of the scenario is a record with its required fields: a
\* cell with q, r and terrain, a starting position with q and r, a monster
\* group, an objective and a treasure a dict, the position of a treasure
\* with q and r, the background a dict
EntitiesAreRecords(scenario) ==
    /\ \A i \in 1..Len(scenario.mapHexes) :
        IsRecordWith(scenario.mapHexes[i], {"q", "r", "terrain"})
    /\ \A i \in 1..Len(scenario.startingPositions) :
        IsRecordWith(scenario.startingPositions[i], {"q", "r"})
    /\ \A i \in 1..Len(GetOr(scenario, "monsterGroups", <<>>)) :
        IsDict(scenario.monsterGroups[i])
    /\ \A i \in 1..Len(GetOr(scenario, "objectives", <<>>)) :
        IsDict(scenario.objectives[i])
    /\ \A i \in 1..Len(GetOr(scenario, "treasures", <<>>)) :
        /\ IsDict(scenario.treasures[i])
        /\ Has(scenario.treasures[i], "position") =>
            IsRecordWith(scenario.treasures[i].position, {"q", "r"})
    /\ IsDict(GetOr(scenario, "background", <<>>))

\* C14: for a scenario that has its required fields, convert_scenario returns
\* a complete engine record whatever the combination of monster positions of
\* neither shape, unknown objective types, duplicate cells and elite lists
\* shorter than the positions: it never raises for these.
C14_IrregularitiesTolerated ==
    (/\ Done("convert_scenario")
     /\ {"name", "sequence", "difficulty", "mapHexes", "startingPositions"}
            \subseteq DOMAIN arg.scenario
     /\ EntitiesAreRecords(arg.scenario)) =>
        /\ ret.ok
        /\ DOMAIN ret.val = EngineKeys
        /\ Len(ret.val.mapLayout) = Len(arg.scenario.mapHexes)
        /\ Len(ret.val.monsterGroups) >= 1
        /\ Len(ret.val.objectives.secondary)
             = Len(GetOr(arg.scenario, "objectives", <<>>))

\* all four irregularities in one scenario
C14_Witness ==
    /\ Done("convert_scenario")
    /\ ret.ok
    /\ Has(arg.scenario, "monsterGroups")
    /\ Len(arg.scenario.monsterGroups) = 1
    /\ LET g == arg.scenario.monsterGroups[1]
       IN  /\ Len(g.positions) = 2
           /\ Malformed(g.positions[1])
           /\ ~Malformed(g.positions[2])
           /\ Has(g, "elite") /\ Len(g.elite) < Len(g.positions)
    /\ arg.scenario.objectives = <<[type |-> "summon-dragons"]>>
    /\ Len(arg.scenario.mapHexes) = 2
    /\ arg.scenario.mapHexes[1].q = arg.scenario.mapHexes[2].q
    /\ arg.scenario.mapHexes[1].r = arg.scenario.mapHexes[2].r
    /\ Len(ret.val.monsterGroups[1].positions) = 1
    /\ ret.val.objectives.secondary[1].type = "collect_treasure"

\* C15: convert_scenario fails exactly when name, sequence or the cell list
\* is missing, the failure naming a missing one of these; in particular a
\* scenario with these three and no difficulty is transformed.
C15_FailsExactlyOnStructural ==
    (Done("convert_scenario") /\ ~Has(arg.scenario, "mapLayout")) =>
        LET missing == {"name", "sequence", "mapHexes"} \ DOMAIN arg.scenario
        IN  /\ ret.ok <=> missing = {}
            /\ ~ret.ok => ret.key \in missing

\* C16: when the engine record that convert_scenario produced is fed back
\* into convert_scenario, the second call completes without an error.
C16_RefeedCompletes ==
    (Done("convert_scenario") /\ Has(arg.scenario, "mapLayout")) => ret.ok

\* C17: convert_scenario does not mutate its input: when the call is over,
\* the scenario and everything nested in it (cells, starting positions,
\* monster groups with their positions and elite lists, treasures,
\* objectives) equal their values before the call.
C17_InputUnchanged ==
    [][(op = "convert_scenario" /\ pc = "call" /\ pc' = "done") => arg' = arg]_vars

\* a finished call on a scenario with every nested collection non-empty and
\* an elite list shorter than the positions: the call has made its stores,
\* the lists it created hold what it returns, and the elite list of the
\* input is in the heap as it was
C17_Witness ==
    /\ Done("convert_scenario") /\ ret.ok
    /\ ~Has(arg.scenario, "mapLayout")
    /\ Len(arg.scenario.mapHexes) > 0
    /\ Len(arg.scenario.startingPositions) > 0
    /\ Has(arg.scenario, "monsterGroups") /\ Has(arg.scenario, "treasures")
    /\ Has(arg.scenario, "objectives")
    /\ Len(arg.scenario.treasures) > 0 /\ Len(arg.scenario.objectives) > 0
    /\ Len(arg.scenario.monsterGroups) > 0
    /\ Has(arg.scenario.monsterGroups[1], "elite")
    /\ Len(arg.scenario.monsterGroups[1].elite)
         < Len(arg.scenario.monsterGroups[1].positions)
    /\ Len(arg.scenario.monsterGroups[1].elite) > 0
    /\ Len(ret.val.monsterGroups[1].positions) = 2
    /\ Len(Stores(arg.scenario)) > 4
    /\ LET heap == HeapAfter(Heap(arg.scenario), Stores(arg.scenario))
       IN  /\ heap[LayoutList] = ret.val.mapLayout
           /\ heap[ConvertedMonsters] = ret.val.monsterGroups
           /\ heap[PositionsList(0)] = ret.val.monsterGroups[1].positions
           /\ heap[EliteList(0)] = ret.val.monsterGroups[1].elite
           /\ heap[Input("elite", 0)] = arg.scenario.monsterGroups[1].elite

\* C18: the record returned by convert_scenario shares no mutable object
\* with its input; in particular no monster position of the output is the
\* very object of the input, {x,y} positions included.
C18_NoSharedObject ==
    (Done("convert_scenario") /\ ret.ok) =>
        SharedPositions(GetOr(arg.scenario, "monsterGroups", <<>>)) = {}

\* a scenario record without cells (it has a name, as every scenario does)
NoCells(scenario) ==
    /\ Has(scenario, "name")
    /\ Has(scenario, "mapHexes") /\ Len(scenario.mapHexes) = 0

\* the lines printed for scenarios, one per scenario that export_campaign
\* got through
IsScenarioLine(line) == line.kind \in {"skipping", "exported"}
ScenarioLines == SelectSeq(log, IsScenarioLine)

\* export_campaign has made its output directory and begun with the
\* scenarios
Started == \E i \in 1..Len(log) : log[i].kind = "exporting"

\* C13: a scenario without cells is skipped.  export_scenario on it raises
\* nothing, returns no path and writes no file; in export_campaign the
\* scenarios are gone through in input order, a scenario without cells is
\* reported as skipped and leaves no file, and it never ends the batch: the
\* batch ends early only at a scenario with cells (or a malformed record).
C13_EmptySkipped ==
    /\ (Done("export_scenario") /\ NoCells(arg.scenario)) =>
        /\ ret = Ok(PyNone)
        /\ files = {}
        /\ log = <<[kind |-> "skipping", name |-> arg.scenario.name]>>
    /\ (/\ Done("export_campaign")
        /\ Has(arg.data, "campaign") /\ Has(arg.data, "scenarios")
        /\ Started) =>
        LET ss == arg.data.scenarios
            n == Len(ScenarioLines)
        IN  /\ n <= Len(ss)
            /\ ret.ok <=> n = Len(ss)
            /\ ~ret.ok => ~NoCells(ss[n + 1])
            /\ \A i \in 1..n :
                /\ ScenarioLines[i].name = ss[i].name
                /\ ScenarioLines[i].kind = "skipping" <=> NoCells(ss[i])
            /\ {f.path : f \in files}
                 = {Resolve(PathJoin(arg.output_dir,
                                     filename(arg.data.campaign,
                                              ss[i].sequence, ss[i].name,
                                              arg.clean_mode))) :
                      i \in {i \in 1..n : ~NoCells(ss[i])}}

\* a campaign whose second scenario has no cells: it is skipped and the
\* third is exported after it
C13_Witness ==
    /\ Done("export_campaign") /\ ret.ok
    /\ Len(arg.data.scenarios) = 3
    /\ ~NoCells(arg.data.scenarios[1])
    /\ NoCells(arg.data.scenarios[2])
    /\ arg.data.scenarios[3].name = "Boss: Lair"
    /\ [i \in 1..3 |-> ScenarioLines[i].kind]
         = <<"exported", "skipping", "exported">>
    /\ Cardinality(files) = 2
    /\ \E f \in files :
        f.path = <<"m", "a", "p", "s", "/", "i", "n", "t", "r", "o", "-",
                   "s", "c", "e", "n", "a", "r", "i", "o", "-", "1", "2", "-",
                   "b", "o", "s", "s", "-", "l", "a", "i", "r", ".", "s", "v", "g">>

\* C21: in each group that convert_monsters emits for an input group, the
\* elite flags are aligned with the retained positions: there is one flag per
\* output position, and the flag at output index k is the input flag of the
\* input position that produced output position k (false when the input has
\* no flag there); the flag of a dropped position is dropped with it.
C21_EliteAligned ==
    (Done("convert_monsters") /\ Len(arg.monster_groups) > 0) =>
        \A g \in 1..Len(arg.monster_groups) :
            LET ps == GetOr(arg.monster_groups[g], "positions", <<>>)
                es == GetOr(arg.monster_groups[g], "elite", <<>>)
                out == ret.val[g].elite
            IN  /\ Len(out) = Cardinality(Retained(ps))
                /\ \A i \in Retained(ps) :
                    LET k == Cardinality({j \in Retained(ps) : j <= i})
                    IN  out[k] = IF i <= Len(es) THEN es[i] ELSE FALSE

\* the file that a finished, successful export_scenario call has written
Written == CHOOSE f \in files : f.path = Resolve(ret.val.some)

\* an export_scenario call that has written its file
Exported ==
    /\ Done("export_scenario") /\ ret.ok
    /\ ~IsNone(ret.val)

\* C22: export_scenario draws exactly one polygon per distinct (q, r) of the
\* input cells, and the polygon of a (q, r) given more than once has the
\* terrain of its last occurrence in the input.
C22_OnePolygonPerCell ==
    Exported =>
        LET hexes == arg.scenario.mapHexes
            polygons == Written.content.polygons
        IN  /\ files = {Written}
            /\ {<<polygons[k].q, polygons[k].r>> : k \in 1..Len(polygons)}
                 = {<<hexes[i].q, hexes[i].r>> : i \in 1..Len(hexes)}
            /\ \A k, l \in 1..Len(polygons) :
                (polygons[k].q = polygons[l].q /\ polygons[k].r = polygons[l].r)
                    => k = l
            /\ \A k \in 1..Len(polygons) :
                \A i \in 1..Len(hexes) :
                    (/\ hexes[i].q = polygons[k].q /\ hexes[i].r = polygons[k].r
                     /\ \A j \in (i + 1)..Len(hexes) :
                            ~(hexes[j].q = hexes[i].q /\ hexes[j].r = hexes[i].r))
                        => polygons[k].terrain = hexes[i].terrain

\* the cell (-1, 0) given as difficult and later as obstacle, (0, 0) between
C22_Witness ==
    /\ Exported
    /\ Len(arg.scenario.mapHexes) = 3
    /\ arg.scenario.mapHexes[1] = [q |-> -1, r |-> 0, terrain |-> "difficult"]
    /\ arg.scenario.mapHexes[3] = [q |-> -1, r |-> 0, terrain |-> "obstacle"]
    /\ Written.content.polygons
         = <<[q |-> -1, r |-> 0, terrain |-> "obstacle"],
             [q |-> 0, r |-> 0, terrain |-> "normal"]>>

\* C23: the detailed mode of export_scenario (clean_mode false), writing
\* into a directory that exists, completes
\* without error on every scenario with cells that convert_scenario accepts,
\* among them scenarios with an elite list shorter than the positions, with
\* {x,y} monster positions and with flat {q,r} treasures.
C23_DetailedModeCompletes ==
    (/\ Done("export_scenario") /\ ~arg.clean_mode
     /\ DirExists(files, dirs, arg.output_dir)
     /\ Has(arg.scenario, "mapHexes") /\ Len(arg.scenario.mapHexes) > 0
     /\ convert_scenario(arg.scenario).ok) =>
        /\ ret.ok
        /\ ~IsNone(ret.val)

\* C25: hex_to_cartesian is injective and is inverted by q = x,
\* r = y - floor(x / 2): no other axial pair has the (x, y) of the pair
\* converted, and in a layout two cells of different (q, r) never get the
\* same (x, y).
C25_Injective ==
    /\ Done("hex_to_cartesian") =>
        /\ arg.q = ret.val[1]
        /\ arg.r = ret.val[2] - Floor2(ret.val[1])
        /\ \A q \in -MaxQ..MaxQ, r \in -MaxQ..MaxQ :
            hex_to_cartesian(q, r) = ret.val => (q = arg.q /\ r = arg.r)
    /\ Done("convert_hex_map_to_layout") =>
        \A i, j \in 1..Len(arg.hexes) :
            (ret.val[i].x = ret.val[j].x /\ ret.val[i].y = ret.val[j].y)
                => (arg.hexes[i].q = arg.hexes[j].q
                    /\ arg.hexes[i].r = arg.hexes[j].r)

\* an odd negative column: (-5, 3) -> (-5, 0), and back r = 0 - floor(-5/2)
C25_Witness ==
    /\ Done("hex_to_cartesian")
    /\ arg.q = -5 /\ arg.r = 3
    /\ ret.val = <<-5, 0>>
    /\ ret.val[2] - Floor2(ret.val[1]) = 3

\* 0 <= a, for a = (rat + irr * sqrt(3)) / 4: by the signs of the two parts,
\* and by comparing their squares when the signs differ
NonNegative(a) ==
    IF a.rat >= 0 /\ a.irr >= 0 THEN TRUE
    ELSE IF a.rat <= 0 /\ a.irr <= 0 THEN FALSE
    ELSE IF a.rat > 0 THEN a.rat * a.rat >= 3 * a.irr * a.irr
    ELSE 3 * a.irr * a.irr >= a.rat * a.rat

\* 0 <= a <= limit
Within(a, limit) == NonNegative(a) /\ NonNegative(NumSub(limit, a))

\* C24: every hex that export_scenario draws lies inside the canvas computed
\* from get_bounds: the pixel center of each cell and its six corners have
\* 0 <= x <= width and 0 <= y <= height, also for non-zero and negative q.
C24_InsideCanvas ==
    Exported =>
        LET canvas == Canvas(arg.scenario.mapHexes, DefaultHexSize)
            content == Written.content
        IN  \A k \in 1..Len(content.polygons) :
                LET center == axial_to_pixel(DefaultHexSize,
                                             content.polygons[k].q,
                                             content.polygons[k].r,
                                             canvas.center_x, canvas.center_y)
                IN  /\ Within(center[1], content.width)
                    /\ Within(center[2], content.height)
                    /\ \A c \in 1..6 :
                        /\ Within(content.points[k][c][1], content.width)
                        /\ Within(content.points[k][c][2], content.height)

====
